---- MODULE Spec2Model ----
(***************************************************************************)
(* The Ising-model simulation and measurement engine of                    *)
(* assets/js/Working_Ising.jsx (class IsingModel, the edge-list parsers    *)
(* and the component MagnetizationCalculator) and the stand-alone page     *)
(* script assets/js/ising-vanilla.js.                                      *)
(*                                                                         *)
(* Numbers.  Temperatures are in units of 0.001 (the schedule rounds every *)
(* temperature to three decimals).  Energies are integers in units of 1/2  *)
(* (the total energy carries a factor 0.5).  Coupling weights are          *)
(* integers.  Magnetizations and estimates are exact fractions [n, d]; a   *)
(* zero denominator stands for the IEEE values Infinity (n = 1),           *)
(* -Infinity (n = -1) and NaN (n = 0).                                     *)
(*                                                                         *)
(* Randomness.  Math.random() is a nondeterministic choice: an operation   *)
(* that draws random numbers is modelled by the set of results it can      *)
(* return.                                                                 *)
(***************************************************************************)
EXTENDS Integers, Sequences, FiniteSets, TLC

VARIABLES
    program,        \* what runs: "class" (an IsingModel instance driven call
                    \* by call), "vanilla" (the page of ising-vanilla.js),
                    \* "parse" (the edge-list parsers applied to a text),
                    \* "component" (the mounted MagnetizationCalculator),
                    \* "function" (a function of the component applied to
                    \* arguments)
    \* ---- an IsingModel instance driven call by call
    model,          \* the instance: [adjacencyMatrix, numNodes, state, energy]
    attemptsLeft,   \* iterations left in the simulationSteps call in progress
    temperature,    \* the temperature argument of that call (0 outside a call)
    \* ---- the page of ising-vanilla.js
    vanilla,        \* its IsingModel: [size, spins]
    running,        \* let running
    animationId,    \* let animationId: NULL or the handle of the last request
    vanillaFrames,  \* the callbacks requestAnimationFrame has queued
    \* ---- the parsers applied to a text
    csvText,        \* the text: a sequence of lines
    parsed,         \* NULL, or what the last call made of csvText
    \* ---- the component MagnetizationCalculator (useState / useRef values)
    adjacencyMatrix,
    fileError,
    settings,       \* [tempMin, tempMax, tempPoints, equilibrationSteps,
                    \*  measurementSteps, measurementTrials]
    isRealTimeSimulating,
    simulationTemp,
    timeScale,
    isingModelRef,
    animationFrameRef,
    driverFrames,   \* the callbacks requestAnimationFrame has queued
    firstRunComplete,
    initialTcEstimate,
    isCalculating,
    magnetizationData,
    criticalTemp,
    abortController,    \* abortController.current: NULL or [aborted]
    sweep,          \* the invocation of startCalculation that is suspended at
                    \* an await, NULL when there is none
    reader,         \* the FileReader whose onload has not run yet, or NULL
    \* ---- a function of the component applied to arguments
    call            \* [function, args, done, returned], NULL when none is called

classVars == <<model, attemptsLeft, temperature>>

vanillaVars == <<vanilla, running, animationId, vanillaFrames>>

parseVars == <<csvText, parsed>>

driverVars ==
    <<isRealTimeSimulating, simulationTemp, timeScale, isingModelRef,
      animationFrameRef, driverFrames>>

sweepVars ==
    <<firstRunComplete, initialTcEstimate, isCalculating, magnetizationData,
      criticalTemp, abortController, sweep>>

componentVars ==
    <<adjacencyMatrix, fileError, settings, reader, driverVars, sweepVars>>

vars == <<program, call, classVars, vanillaVars, parseVars, componentVars>>

NULL == "null"

\* null where the other values are records
Null == [null |-> TRUE]

----------------------------------------------------------------------------
(* Bounds of the model *)

MaxNodes == 2     \* class-level graphs have 1..MaxNodes nodes
MaxSteps == 2     \* nSteps of a class-level simulationSteps call is in 1..MaxSteps
VanillaSize == 2  \* the vanilla lattice is VanillaSize x VanillaSize (the page: 50)
MaxLines == 3     \* a parsed text has 1..MaxLines lines

\* coupling weights of the class-level graphs
Weights == {0, 1, 2}

\* temperatures of class-level calls (only the sign enters the acceptance rule)
CallTemperatures == {0, 1500}

----------------------------------------------------------------------------
(* Arithmetic helpers *)

RECURSIVE SumOver(_, _)
SumOver(S, f) ==
    IF S = {} THEN 0
    ELSE LET x == CHOOSE y \in S : TRUE
         IN  f[x] + SumOver(S \ {x}, f)

Abs(x) == IF x < 0 THEN -x ELSE x

Max(a, b) == IF a >= b THEN a ELSE b

Min(a, b) == IF a <= b THEN a ELSE b

RECURSIVE GCD(_, _)
GCD(a, b) == IF b = 0 THEN a ELSE GCD(b, a % b)

Sign(x) == IF x > 0 THEN 1 ELSE IF x < 0 THEN -1 ELSE 0

\* the fraction n/d in lowest terms with d >= 0
Frac(n, d) ==
    IF d = 0 THEN [n |-> Sign(n), d |-> 0]
    ELSE LET g == GCD(Abs(n), Abs(d))
         IN  [n |-> Sign(d) * (n \div g), d |-> Abs(d) \div g]

Whole(k) == [n |-> k, d |-> 1]

NaN == [n |-> 0, d |-> 0]

IsNaN(a) == a.d = 0 /\ a.n = 0

IsFinite(a) == a.d # 0

RNeg(a) == [n |-> -a.n, d |-> a.d]

RAdd(a, b) ==
    IF a.d # 0 /\ b.d # 0
    THEN LET g == GCD(a.d, b.d)
         IN  Frac(a.n * (b.d \div g) + b.n * (a.d \div g), (a.d \div g) * b.d)
    ELSE IF IsNaN(a) \/ IsNaN(b) THEN NaN
    ELSE IF a.d = 0 /\ b.d = 0
         THEN (IF a.n = b.n THEN a ELSE NaN)
    ELSE IF a.d = 0 THEN a ELSE b

RSub(a, b) == RAdd(a, RNeg(b))

RMul(a, b) ==
    IF a.d # 0 /\ b.d # 0
    THEN LET g1 == GCD(Abs(a.n), b.d)
             g2 == GCD(Abs(b.n), a.d)
             h1 == IF g1 = 0 THEN 1 ELSE g1
             h2 == IF g2 = 0 THEN 1 ELSE g2
         IN  Frac((a.n \div h1) * (b.n \div h2), (a.d \div h2) * (b.d \div h1))
    ELSE Frac(Sign(a.n) * Sign(b.n), 0)

\* 1/a; signed zeros are not tracked, 1/0 is Infinity
RInv(a) == IF a.n = 0 THEN [n |-> (IF a.d = 0 THEN 0 ELSE 1), d |-> 0]
           ELSE Frac(a.d, a.n)

RDiv(a, b) ==
    IF b.d # 0 /\ b.n = 0 THEN Frac(Sign(a.n), 0)
    ELSE RMul(a, RInv(b))

\* a < b as IEEE compares: false when either side is NaN
RLess(a, b) ==
    IF IsNaN(a) \/ IsNaN(b) THEN FALSE
    ELSE IF a.d = 0 /\ b.d = 0 THEN a.n < b.n
    ELSE IF a.d = 0 THEN a.n < 0
    ELSE IF b.d = 0 THEN b.n > 0
    ELSE a.n * b.d < b.n * a.d

RLeq(a, b) ==
    IF IsNaN(a) \/ IsNaN(b) THEN FALSE ELSE ~RLess(b, a)

\* Math.max / Math.min of two finite values
RMax(a, b) == IF RLess(a, b) THEN b ELSE a

RMin(a, b) == IF RLess(b, a) THEN b ELSE a

\* Math.floor of a finite fraction
Floor(a) == a.n \div a.d

\* parseFloat(x.toFixed(0)) of a finite fraction: the nearest integer, a tie
\* going away from zero.  Temperatures being in units of 0.001 this is
\* parseFloat(t.toFixed(3)) of the source.
Round(a) ==
    IF a.n >= 0 THEN (2 * a.n + a.d) \div (2 * a.d)
    ELSE -((2 * (-a.n) + a.d) \div (2 * a.d))

----------------------------------------------------------------------------
(* class IsingModel, Working_Ising.jsx lines 5-167 *)

\* this.J = -1.0 (ferromagnetic coupling)
J == -1

Nodes(matrix) == DOMAIN matrix

IsSymmetric(matrix) ==
    \A i \in Nodes(matrix) : \A j \in Nodes(matrix) : matrix[i][j] = matrix[j][i]

\* verifyAndComputeNeighbors: the indices j # i with a nonzero entry in row i;
\* the coupling of neighbour j is adjacencyMatrix[i][j]
neighbors(m, i) ==
    {j \in Nodes(m.adjacencyMatrix) : j # i /\ m.adjacencyMatrix[i][j] # 0}

\* calculateDeltaEnergy(siteIndex): -2 * J * spin * energyContribution,
\* returned in units of 1/2
calculateDeltaEnergy(m, siteIndex) ==
    LET spin == m.state[siteIndex]
        energyContribution ==
            SumOver(neighbors(m, siteIndex),
                    [j \in neighbors(m, siteIndex) |->
                        m.adjacencyMatrix[siteIndex][j] * m.state[j]])
    IN  2 * (-2 * J * spin * energyContribution)

\* calculateTotalEnergy(): the sum over i and over the neighbours j of i of
\* -0.5 * J * state[i] * state[j] * coupling; in units of 1/2 each term is
\* -J * state[i] * state[j] * coupling
calculateTotalEnergy(m) ==
    SumOver(Nodes(m.adjacencyMatrix),
            [i \in Nodes(m.adjacencyMatrix) |->
                SumOver(neighbors(m, i),
                        [j \in neighbors(m, i) |->
                            -J * m.state[i] * m.state[j] * m.adjacencyMatrix[i][j]])])

\* constructor, lines 16-21: the alternating pattern 1,-1,1,... shuffled by
\* Fisher-Yates: every arrangement with as many +1 as the pattern has
shuffleSpins(n) ==
    {s \in [0..(n-1) -> {1, -1}] :
        Cardinality({i \in 0..(n-1) : s[i] = 1}) = (n + 1) \div 2}

\* this.energy = this.calculateTotalEnergy()
WithEnergy(m) == [m EXCEPT !.energy = calculateTotalEnergy(m)]

\* new IsingModel(adjacencyMatrix): the instances the constructor can return
IsingModel(matrix) ==
    LET n == Cardinality(Nodes(matrix))
    IN  {WithEnergy([adjacencyMatrix |-> matrix, numNodes |-> n,
                     state |-> s, energy |-> 0]) : s \in shuffleSpins(n)}

\* the Metropolis criterion of line 149,
\*   deltaE <= 0 || Math.random() < Math.exp(-deltaE / temperature):
\* a draw that accepts exists unless deltaE > 0 and the exponential is 0
\* (temperature 0); a draw that rejects exists when deltaE > 0 and the
\* exponential is below 1 (temperature >= 0)
MayAccept(deltaE, T) == deltaE <= 0 \/ T # 0

MayReject(deltaE, T) == deltaE > 0 /\ T >= 0

\* lines 150-151: this.state[site] *= -1; this.energy += deltaE
FlipSpin(m, site, deltaE) ==
    [m EXCEPT !.state[site] = -1 * @, !.energy = @ + deltaE]

\* one iteration of the loop of simulationSteps (lines 141-153): the
\* instances it can leave, over the random site and the random draw
AttemptOutcomes(m, T) ==
    {FlipSpin(m, site, calculateDeltaEnergy(m, site)) :
        site \in {s \in Nodes(m.adjacencyMatrix) :
                    MayAccept(calculateDeltaEnergy(m, s), T)}}
    \cup
    {mm \in {m} : \E s \in Nodes(m.adjacencyMatrix) :
                    MayReject(calculateDeltaEnergy(m, s), T)}

\* the instances `attempts` iterations can leave, starting from any of `from`.
\* The sequence of sets is followed iteration by iteration; once it repeats
\* with period 1 or 2 the remaining iterations are read off the period.
RECURSIVE AfterAttempts(_, _, _)
AfterAttempts(from, T, attempts) ==
    IF attempts <= 0 THEN from
    ELSE LET once  == UNION {AttemptOutcomes(m, T) : m \in from}
             twice == UNION {AttemptOutcomes(m, T) : m \in once}
         IN  IF once = from THEN from
             ELSE IF twice = from
                  THEN (IF attempts % 2 = 0 THEN from ELSE once)
             ELSE AfterAttempts(once, T, attempts - 1)

\* simulationSteps(temperature, nSteps) (lines 136-156) as one call:
\* totalAttempts = nSteps * numNodes iterations
simulationSteps(m, T, nSteps) == AfterAttempts({m}, T, nSteps * m.numNodes)

\* calculateMagnetization() * numNodes: the sum of the spins
SpinSum(m) == SumOver(Nodes(m.adjacencyMatrix), m.state)

\* calculateAbsoluteMagnetization(): |sum of the spins| / numNodes
calculateAbsoluteMagnetization(m) == Frac(Abs(SpinSum(m)), m.numNodes)

\* resetSpins (lines 1076-1082): every spin drawn +1 or -1, energy recomputed
resetSpins(m) ==
    {WithEnergy([m EXCEPT !.state = s]) :
        s \in [Nodes(m.adjacencyMatrix) -> {1, -1}]}

\* a variant of setAllSpins that leaves the cached energy as it is
setAllSpins_KeepsEnergy(m, value) ==
    [m EXCEPT !.state = [i \in Nodes(m.adjacencyMatrix) |-> value]]

\* setAllSpins(value) (lines 1091-1097): every spin set to value, energy recomputed
setAllSpins(m, value) ==
    WithEnergy([m EXCEPT !.state = [i \in Nodes(m.adjacencyMatrix) |-> value]])

----------------------------------------------------------------------------
(* requestAnimationFrame / cancelAnimationFrame.  The queue of callbacks   *)
(* is [current, stray]: whether the callback whose handle the page holds   *)
(* is queued, and how many queued callbacks it holds no handle of.         *)

NoFrames == [current |-> FALSE, stray |-> 0]

\* handle = requestAnimationFrame(callback), the handle overwriting the one held
requestAnimationFrame(frames) ==
    [current |-> TRUE, stray |-> frames.stray + (IF frames.current THEN 1 ELSE 0)]

\* cancelAnimationFrame(handle) for the handle held
cancelAnimationFrame(frames) == [frames EXCEPT !.current = FALSE]

\* the callbacks the browser can run next
Queued(frames) ==
    {w \in {"current", "stray"} :
        \/ w = "current" /\ frames.current
        \/ w = "stray" /\ frames.stray > 0}

\* the queue once the browser has taken callback w off it
Dequeue(frames, w) ==
    IF w = "current" THEN [frames EXCEPT !.current = FALSE]
    ELSE [frames EXCEPT !.stray = @ - 1]

----------------------------------------------------------------------------
(* ising-vanilla.js *)

\* the temperature of the page's model: the slider keeps it in 0.5 .. 4.0
\* (ising-model.md line 59), so a draw that accepts and a draw that rejects
\* both exist whenever dE > 0
VanillaTemperature == 2000

Sites(size) == 0..(size * size - 1)

\* constructor (line 5) and the reset handler (line 107): every spin drawn
VanillaSpins(size) == [Sites(size) -> {1, -1}]

\* lines 21-26: the four neighbours of (i, j) with periodic boundary, as the
\* list the loop of lines 28-30 walks (a site can occur more than once)
vanillaNeighbors(size, i, j) ==
    << ((i + 1) % size) * size + j,
       ((i - 1 + size) % size) * size + j,
       i * size + ((j + 1) % size),
       i * size + ((j - 1 + size) % size) >>

\* lines 18-30: dE += 2 * spins[idx] * spins[nIdx] over the four neighbours
vanillaDeltaE(v, i, j) ==
    LET idx == i * v.size + j
        nb  == vanillaNeighbors(v.size, i, j)
    IN  2 * v.spins[idx] * v.spins[nb[1]] + 2 * v.spins[idx] * v.spins[nb[2]]
        + 2 * v.spins[idx] * v.spins[nb[3]] + 2 * v.spins[idx] * v.spins[nb[4]]

\* line 34: this.spins[idx] *= -1
vanillaFlip(v, idx) == [v EXCEPT !.spins[idx] = -1 * @]

\* one iteration of the loop of simulateSteps (lines 11-36)
vanillaAttempt(v) ==
    {vanillaFlip(v, i * v.size + j) :
        <<i, j>> \in {p \in (0..(v.size - 1)) \X (0..(v.size - 1)) :
                        MayAccept(vanillaDeltaE(v, p[1], p[2]), VanillaTemperature)}}
    \cup
    {vv \in {v} : \E i \in 0..(v.size - 1), j \in 0..(v.size - 1) :
                    MayReject(vanillaDeltaE(v, i, j), VanillaTemperature)}

\* the models of the page: new IsingModel(size) with any spins
VanillaModels == {[size |-> VanillaSize, spins |-> s] : s \in VanillaSpins(VanillaSize)}

\* vanillaAttempt over the models of the page, evaluated once
VanillaAttempts == [v \in VanillaModels |-> vanillaAttempt(v)]

\* simulateSteps(steps) (lines 10-37): the models it can leave
RECURSIVE simulateSteps(_, _)
simulateSteps(from, steps) ==
    IF steps = 0 THEN from
    ELSE simulateSteps(UNION {VanillaAttempts[v] : v \in from}, steps - 1)

\* runSimulation (lines 113-127) passes 5
StepsPerFrame == 5

VanillaInit ==
    /\ vanilla \in VanillaModels
    /\ running = FALSE
    /\ animationId = NULL
    /\ vanillaFrames = NoFrames

VanillaIdle ==
    /\ vanilla = Null
    /\ running = FALSE
    /\ animationId = NULL
    /\ vanillaFrames = NoFrames

\* the body of runSimulation (lines 113-127) once past the guard of line 114
RunSimulationBody(frames) ==
    /\ vanilla' \in simulateSteps({vanilla}, StepsPerFrame)
    /\ animationId' = "handle"
    /\ vanillaFrames' = requestAnimationFrame(frames)

\* the click handler of the start/stop button (lines 93-103)
VanillaStartStop ==
    /\ program = "vanilla"
    /\ running' = ~running
    /\ IF running'
       THEN RunSimulationBody(vanillaFrames)
       ELSE /\ vanillaFrames' = IF animationId # NULL
                                THEN cancelAnimationFrame(vanillaFrames)
                                ELSE vanillaFrames
            /\ UNCHANGED <<vanilla, animationId>>
    /\ UNCHANGED <<program, call, classVars, parseVars, componentVars>>

\* the browser runs a queued runSimulation (lines 113-127)
VanillaFrame ==
    /\ program = "vanilla"
    /\ \E w \in Queued(vanillaFrames) :
        IF ~running
        THEN /\ vanillaFrames' = Dequeue(vanillaFrames, w)
             /\ UNCHANGED <<vanilla, animationId>>
        ELSE RunSimulationBody(Dequeue(vanillaFrames, w))
    /\ UNCHANGED <<program, call, running, classVars, parseVars, componentVars>>

\* a variant of the reset handler that draws 1 or 0
VanillaReset_ZeroOne ==
    /\ program = "vanilla"
    /\ vanilla' \in {[vanilla EXCEPT !.spins = s] : s \in [Sites(vanilla.size) -> {1, 0}]}
    /\ UNCHANGED <<program, call, running, animationId, vanillaFrames,
                   classVars, parseVars, componentVars>>

\* the click handler of the reset button (lines 106-110)
VanillaReset ==
    /\ program = "vanilla"
    /\ vanilla' \in {[vanilla EXCEPT !.spins = s] : s \in VanillaSpins(vanilla.size)}
    /\ UNCHANGED <<program, call, running, animationId, vanillaFrames,
                   classVars, parseVars, componentVars>>

----------------------------------------------------------------------------
(* The class driven call by call: construct an instance over any symmetric *)
(* graph, run simulationSteps one loop iteration at a time, reset.         *)

\* the symmetric matrices over n nodes with a zero diagonal: one weight per
\* unordered pair of nodes
SymmetricMatrices(n, W) ==
    LET Pairs == {p \in (0..(n-1)) \X (0..(n-1)) : p[1] < p[2]}
    IN  {[i \in 0..(n-1) |-> [j \in 0..(n-1) |->
            IF i = j THEN 0
            ELSE IF i < j THEN u[<<i, j>>] ELSE u[<<j, i>>]]] :
         u \in [Pairs -> W]}

SymmetricGraphs == UNION {SymmetricMatrices(n, Weights) : n \in 1..MaxNodes}

ClassInit ==
    /\ model \in UNION {IsingModel(a) : a \in SymmetricGraphs}
    /\ attemptsLeft = 0
    /\ temperature = 0

ClassIdle ==
    /\ model = Null
    /\ attemptsLeft = 0
    /\ temperature = 0

\* a caller enters simulationSteps(temperature, nSteps):
\* totalAttempts = nSteps * numNodes
CallSimulationSteps ==
    /\ program = "class"
    /\ attemptsLeft = 0
    /\ \E T \in CallTemperatures, nSteps \in 1..MaxSteps :
        /\ temperature' = T
        /\ attemptsLeft' = nSteps * model.numNodes
    /\ UNCHANGED <<program, call, model, vanillaVars, parseVars, componentVars>>

\* one loop iteration with a draw that accepts the flip
AttemptAccept ==
    /\ program = "class"
    /\ attemptsLeft > 0
    /\ \E site \in Nodes(model.adjacencyMatrix) :
        LET deltaE == calculateDeltaEnergy(model, site)
        IN  /\ MayAccept(deltaE, temperature)
            /\ model' = FlipSpin(model, site, deltaE)
    /\ attemptsLeft' = attemptsLeft - 1
    /\ temperature' = IF attemptsLeft = 1 THEN 0 ELSE temperature
    /\ UNCHANGED <<program, call, vanillaVars, parseVars, componentVars>>

\* a variant of the rejecting iteration that flips the spin all the same
AttemptReject_Flips ==
    /\ program = "class"
    /\ attemptsLeft > 0
    /\ \E site \in Nodes(model.adjacencyMatrix) :
        LET deltaE == calculateDeltaEnergy(model, site)
        IN  /\ MayReject(deltaE, temperature)
            /\ model' = [model EXCEPT !.state[site] = -1 * @]
    /\ attemptsLeft' = attemptsLeft - 1
    /\ temperature' = IF attemptsLeft = 1 THEN 0 ELSE temperature
    /\ UNCHANGED <<program, call, vanillaVars, parseVars, componentVars>>

\* one loop iteration with a draw that rejects the flip
AttemptReject ==
    /\ program = "class"
    /\ attemptsLeft > 0
    /\ \E site \in Nodes(model.adjacencyMatrix) :
        LET deltaE == calculateDeltaEnergy(model, site)
        IN  MayReject(deltaE, temperature)
    /\ attemptsLeft' = attemptsLeft - 1
    /\ temperature' = IF attemptsLeft = 1 THEN 0 ELSE temperature
    /\ UNCHANGED <<program, call, model, vanillaVars, parseVars, componentVars>>

\* a caller resets the instance as resetSpins does
ClassResetSpins ==
    /\ program = "class"
    /\ attemptsLeft = 0
    /\ model' \in resetSpins(model)
    /\ UNCHANGED <<program, call, attemptsLeft, temperature,
                   vanillaVars, parseVars, componentVars>>

\* a caller resets the instance as setAllSpins(1) and setAllSpins(-1) do
ClassSetAllSpins ==
    /\ program = "class"
    /\ attemptsLeft = 0
    /\ \E value \in {1, -1} : model' = setAllSpins(model, value)
    /\ UNCHANGED <<program, call, attemptsLeft, temperature,
                   vanillaVars, parseVars, componentVars>>

----------------------------------------------------------------------------
(* The edge-list parsers.  A text is the sequence of its lines as          *)
(* csvText.trim().split('\n') returns them; a line is the sequence of the  *)
(* fields line.trim().split(',') returns, <<>> for a line that trims to    *)
(* the empty string.  A field is a string: a decimal numeral, "x" for a    *)
(* field that is no number, "#" for a field that starts a comment line.    *)

Numerals == {"0", "1", "2"}

\* parseInt(field, 10) and parseFloat(field): [nan, value]
parseInt(field) ==
    IF field = "0" THEN [nan |-> FALSE, value |-> 0]
    ELSE IF field = "1" THEN [nan |-> FALSE, value |-> 1]
    ELSE IF field = "2" THEN [nan |-> FALSE, value |-> 2]
    ELSE [nan |-> TRUE, value |-> 0]

\* the lines of the explored texts
LineKinds ==
    {<<>>, <<"#">>, <<"1", "2">>, <<"x", "1", "1">>, <<"1", "2", "x">>}
    \cup {<<r, c, "1">> : r \in Numerals, c \in Numerals}

\* trim() leaves no blank first or last line; a text that trims to the empty
\* string splits into the one line <<>>
Texts(maxLines) ==
    UNION {{t \in [1..n -> LineKinds] :
                n > 1 => (t[1] # <<>> /\ t[n] # <<>>)} : n \in 1..maxLines}

\* `if (!line || line.startsWith('#')) continue`
IsSkipped(line) == line = <<>> \/ line[1] = "#"

\* the entry {row, col, value} a line that is not skipped yields
EntryOf(line) ==
    [row   |-> parseInt(line[1]).value,
     col   |-> parseInt(line[2]).value,
     value |-> parseInt(line[3]).value]

\* lines 838-850 (179-196 of the module-level parser): the lines the loop
\* does not `continue` past
IsNumericTriple(line) ==
    /\ ~IsSkipped(line)
    /\ Len(line) >= 3
    /\ ~parseInt(line[1]).nan /\ ~parseInt(line[2]).nan /\ ~parseInt(line[3]).nan

\* the loop over the lines (lines 833-854; 179-206 of the module-level
\* parser, which also continues past a line with row <= 0 or col <= 0 when
\* positiveOnly): the entries pushed, in the order of the lines
RECURSIVE Entries(_, _)
Entries(text, positiveOnly) ==
    IF text = <<>> THEN <<>>
    ELSE LET line == Head(text)
         IN  IF /\ IsNumericTriple(line)
                /\ (positiveOnly => EntryOf(line).row > 0 /\ EntryOf(line).col > 0)
             THEN <<EntryOf(line)>> \o Entries(Tail(text), positiveOnly)
             ELSE Entries(Tail(text), positiveOnly)

\* Array(maxRowCol).fill().map(() => Array(maxRowCol).fill(0))
ZeroMatrix(n) == [i \in 0..(n-1) |-> [j \in 0..(n-1) |-> 0]]

RECURSIVE MaxIndex(_)
MaxIndex(entries) ==
    IF entries = <<>> THEN 0
    ELSE Max(Max(Head(entries).row, Head(entries).col), MaxIndex(Tail(entries)))

Failure(message) == [ok |-> FALSE, message |-> message, matrix |-> ZeroMatrix(0)]

Success(matrix) == [ok |-> TRUE, message |-> NULL, matrix |-> matrix]

\* entries.forEach of the inner parser (lines 864-866):
\* adjMatrix[row-1][col-1] = value.  A row outside the matrix makes
\* adjMatrix[row-1] undefined and the assignment throws a TypeError; a
\* column outside it sets a property that is no element of the row.
RECURSIVE FillInner(_, _)
FillInner(adjMatrix, entries) ==
    IF entries = <<>> THEN Success(adjMatrix)
    ELSE LET e == Head(entries)
         IN  IF (e.row - 1) \notin DOMAIN adjMatrix
             THEN Failure("Failed to parse CSV: Cannot set properties of undefined")
             ELSE IF (e.col - 1) \notin DOMAIN adjMatrix
                  THEN FillInner(adjMatrix, Tail(entries))
             ELSE FillInner([adjMatrix EXCEPT ![e.row - 1][e.col - 1] = e.value],
                            Tail(entries))

\* MagnetizationCalculator.parseCSVToAdjacencyMatrix (lines 827-873), the
\* parser handleFileUpload calls
parseCSVToAdjacencyMatrix(text) ==
    LET entries == Entries(text, FALSE)
    IN  IF entries = <<>>
        THEN Failure("Failed to parse CSV: No valid entries found in CSV file")
        ELSE FillInner(ZeroMatrix(MaxIndex(entries)), entries)

\* entries.forEach of the module-level parser (lines 217-234): both
\* adjMatrix[r][c] and adjMatrix[c][r] are set
RECURSIVE FillOuter(_, _)
FillOuter(adjMatrix, entries) ==
    IF entries = <<>> THEN Success(adjMatrix)
    ELSE LET r == Head(entries).row - 1
             c == Head(entries).col - 1
         IN  IF r \notin DOMAIN adjMatrix \/ c \notin DOMAIN adjMatrix
             THEN FillOuter(adjMatrix, Tail(entries))
             ELSE FillOuter([[adjMatrix EXCEPT ![r][c] = Head(entries).value]
                                EXCEPT ![c][r] = Head(entries).value],
                            Tail(entries))

\* the module-level parseCSVToAdjacencyMatrix (lines 171-263), which the
\* declaration of line 827 shadows inside the component
parseCSVToAdjacencyMatrixOuter(text) ==
    LET entries == Entries(text, TRUE)
    IN  IF entries = <<>>
        THEN Failure("Failed to parse CSV: No valid entries found in CSV file")
        ELSE FillOuter(ZeroMatrix(MaxIndex(entries)), entries)

AsymmetryWarning == "Warning: The adjacency matrix is not symmetric."

NotLoaded(message) == [fileError |-> message, loaded |-> FALSE, matrix |-> ZeroMatrix(0)]

\* reader.onload of handleFileUpload (lines 1132-1216) up to the point where
\* the matrix is accepted: [fileError, loaded, matrix]; loaded is FALSE when
\* the handler returns without loading a graph
onload(text) ==
    IF Len(text) < 3
    THEN NotLoaded("CSV file too small. Need at least 3 lines for a meaningful graph.")
    ELSE IF \E i \in 1..Min(5, Len(text)) : text[i] # <<>> /\ Len(text[i]) < 3
    THEN NotLoaded("Line has incorrect format.")
    ELSE LET result == parseCSVToAdjacencyMatrix(text)
         IN  IF ~result.ok
             THEN NotLoaded("Error parsing CSV")
             ELSE IF Cardinality(DOMAIN result.matrix) = 0
             THEN NotLoaded("Could not parse the CSV file into a valid adjacency matrix.")
             ELSE [fileError |-> IF IsSymmetric(result.matrix) THEN NULL
                                 ELSE AsymmetryWarning,
                   loaded |-> TRUE,
                   matrix |-> result.matrix]

NotParsed == [by |-> "none", loaded |-> FALSE, matrix |-> ZeroMatrix(0)]

ParseInit ==
    /\ csvText \in Texts(MaxLines)
    /\ parsed = NotParsed

ParseIdle ==
    /\ csvText = <<>>
    /\ parsed = NotParsed

\* a caller applies the module-level parser to the text
CallParseOuter ==
    /\ program = "parse"
    /\ parsed' = [by |-> "parseCSVToAdjacencyMatrix (module)",
                  loaded |-> parseCSVToAdjacencyMatrixOuter(csvText).ok,
                  matrix |-> parseCSVToAdjacencyMatrixOuter(csvText).matrix]
    /\ UNCHANGED <<program, call, csvText, classVars, vanillaVars, componentVars>>

\* a caller applies the component's parser to the text
CallParseInner ==
    /\ program = "parse"
    /\ parsed' = [by |-> "parseCSVToAdjacencyMatrix (component)",
                  loaded |-> parseCSVToAdjacencyMatrix(csvText).ok,
                  matrix |-> parseCSVToAdjacencyMatrix(csvText).matrix]
    /\ UNCHANGED <<program, call, csvText, classVars, vanillaVars, componentVars>>

\* the text is uploaded: reader.onload runs on it
CallOnload ==
    /\ program = "parse"
    /\ parsed' = [by |-> "handleFileUpload",
                  loaded |-> onload(csvText).loaded,
                  matrix |-> onload(csvText).matrix]
    /\ UNCHANGED <<program, call, csvText, classVars, vanillaVars, componentVars>>

----------------------------------------------------------------------------
(* MagnetizationCalculator: the temperature schedule, the measurement at   *)
(* one temperature and the estimate of the critical temperature            *)

\* [...].sort((a, b) => b - a) (line 1433): descending
RECURSIVE InsertDescending(_, _)
InsertDescending(sorted, x) ==
    IF sorted = <<>> THEN <<x>>
    ELSE IF x > Head(sorted) THEN <<x>> \o sorted
    ELSE <<Head(sorted)>> \o InsertDescending(Tail(sorted), x)

RECURSIVE SortDescending(_)
SortDescending(seq) ==
    IF seq = <<>> THEN <<>>
    ELSE InsertDescending(SortDescending(SubSeq(seq, 1, Len(seq) - 1)), seq[Len(seq)])

\* [...data].sort((a, b) => a.temperature - b.temperature) (lines 1609,
\* 1666): ascending by temperature, equal temperatures keeping their order
RECURSIVE InsertByTemperature(_, _)
InsertByTemperature(sorted, x) ==
    IF sorted = <<>> THEN <<x>>
    ELSE IF x.temperature < Head(sorted).temperature THEN <<x>> \o sorted
    ELSE <<Head(sorted)>> \o InsertByTemperature(Tail(sorted), x)

RECURSIVE SortByTemperature(_)
SortByTemperature(data) ==
    IF data = <<>> THEN <<>>
    ELSE InsertByTemperature(SortByTemperature(SubSeq(data, 1, Len(data) - 1)),
                             data[Len(data)])

\* `k || 1`
OrOne(k) == IF k = 0 THEN 1 ELSE k

\* const margin = 0.5 (line 1398)
margin == 500

\* a variant allocating half of the points to the critical region
criticalRegionPoints_Half(s) == Max(s.tempPoints \div 2, 10)

\* line 1403: Math.max(Math.floor(tempPoints * 0.7), 10)
criticalRegionPoints(s) == Max((s.tempPoints * 7) \div 10, 10)

\* a variant dividing the range by tempPoints
LinearStep_OverCount(s) == Frac(s.tempMax - s.tempMin, s.tempPoints)

\* line 1437: const step = (tempMax - tempMin) / (tempPoints - 1)
LinearStep(s) == Frac(s.tempMax - s.tempMin, s.tempPoints - 1)

\* generateTemperaturePoints(initialEstimate) (lines 1392-1439) under the
\* settings s; useTwoStageSampling is true (line 905, its setter is never
\* called).  tempPoints is at least 2 in the explored settings.
generateTemperaturePoints(initialEstimate, s) ==
    IF initialEstimate # Null
    THEN LET criticalRegionMin == RMax(Whole(s.tempMin), RSub(initialEstimate, Whole(margin)))
             criticalRegionMax == RMin(Whole(s.tempMax), RAdd(initialEstimate, Whole(margin)))
             remainingPoints == s.tempPoints - criticalRegionPoints(s)
             floorHalf == remainingPoints \div 2
             ceilHalf  == -((-remainingPoints) \div 2)
             critStep  == RDiv(RSub(criticalRegionMax, criticalRegionMin),
                               Whole(OrOne(criticalRegionPoints(s) - 1)))
             lowerStep == RDiv(RSub(criticalRegionMin, Whole(s.tempMin)),
                               Whole(OrOne(floorHalf)))
             upperStep == RDiv(RSub(Whole(s.tempMax), criticalRegionMax),
                               Whole(OrOne(ceilHalf)))
             critPoints ==
                 [i \in 1..criticalRegionPoints(s) |->
                    Round(RAdd(criticalRegionMin, RMul(Whole(i - 1), critStep)))]
             lowerPoints ==
                 IF RLess(Whole(s.tempMin), criticalRegionMin) /\ remainingPoints > 0
                 THEN [i \in 1..floorHalf |->
                        Round(RAdd(Whole(s.tempMin), RMul(Whole(i - 1), lowerStep)))]
                 ELSE <<>>
             upperPoints ==
                 IF RLess(criticalRegionMax, Whole(s.tempMax)) /\ remainingPoints > 0
                 THEN [i \in 1..ceilHalf |->
                        Round(RAdd(criticalRegionMax, RMul(Whole(i - 1), upperStep)))]
                 ELSE <<>>
         IN  SortDescending(lowerPoints \o critPoints \o upperPoints)
    ELSE [i \in 1..s.tempPoints |->
            Round(RSub(Whole(s.tempMax), RMul(Whole(i - 1), LinearStep(s))))]

\* the mean of calculateMagnetizationAtTemperature (line 1492):
\* the sum of the values divided by their number (0/0 when there is none)
RECURSIVE SumSeq(_)
SumSeq(values) ==
    IF values = <<>> THEN Whole(0) ELSE RAdd(Head(values), SumSeq(Tail(values)))

Mean(values) == RDiv(SumSeq(values), Whole(Len(values)))

\* lines 1495-1496: the variance, the squared deviations divided by their
\* number (stdDev is its square root)
Variance(values) ==
    LET meanMag == Mean(values)
        squaredDiffs == [k \in 1..Len(values) |->
                            RMul(RSub(values[k], meanMag), RSub(values[k], meanMag))]
    IN  RDiv(SumSeq(squaredDiffs), Whole(Len(values)))

\* the measurement phase of calculateMagnetizationAtTemperature (lines
\* 1468-1510) without the abort checks, which the callers place: the
\* [model, values] it can end with, `trials` more trials to go
RECURSIVE MeasurementTrials(_, _, _, _)
MeasurementTrials(from, T, steps, trials) ==
    IF trials <= 0 THEN from
    ELSE MeasurementTrials(
            UNION {{[model |-> m2,
                     values |-> Append(r.values, calculateAbsoluteMagnetization(m2))] :
                        m2 \in simulationSteps(r.model, T, steps)} : r \in from},
            T, steps, trials - 1)

\* the data point startCalculation builds (lines 1593-1599); stdDev is kept
\* as its square, errorHigh, errorLow and energy are left out
DataPoint(T, values) ==
    [temperature |-> T, magnetization |-> Mean(values), variance |-> Variance(values)]

\* const windowSize = 3 (line 1671)
windowSize == 3

\* lines 1670-1689: the moving average; the points with i < windowSize/2 or
\* i >= length - windowSize/2 are copied (i counts from 0)
Smoothed(sortedData) ==
    [k \in 1..Len(sortedData) |->
        LET i == k - 1
        IN  IF 2 * i < windowSize \/ 2 * i >= 2 * Len(sortedData) - windowSize
            THEN sortedData[k].magnetization
            ELSE RDiv(RAdd(RAdd(sortedData[k - 1].magnetization,
                                sortedData[k].magnetization),
                           sortedData[k + 1].magnetization),
                      Whole(windowSize))]

\* lines 1693-1707: derivatives[i-1] for i = 1 .. length-1 (here k = i)
Derivatives(sortedData) ==
    LET smoothed == Smoothed(sortedData)
    IN  [k \in 1..(Len(sortedData) - 1) |->
            [temperature |-> Frac(sortedData[k].temperature + sortedData[k + 1].temperature, 2),
             slope |-> RDiv(RSub(smoothed[k], smoothed[k + 1]),
                            Whole(sortedData[k + 1].temperature - sortedData[k].temperature))]]

\* lines 1710-1720: the index (from 1; 0 for critTempIndex = -1) of the
\* first derivative whose slope exceeds every earlier one, starting from 0
RECURSIVE PeakIndex(_, _, _, _)
PeakIndex(derivatives, k, maxSlope, best) ==
    IF k > Len(derivatives) THEN best
    ELSE IF RLess(maxSlope, derivatives[k].slope)
         THEN PeakIndex(derivatives, k + 1, derivatives[k].slope, k)
         ELSE PeakIndex(derivatives, k + 1, maxSlope, best)

\* lines 1724-1765: the vertex of the parabola through the peak and its two
\* neighbours, when it is a maximum inside [tempMin, tempMax].  The source
\* computes with the temperatures x; here they are taken relative to x[1]
\* and in units of x[2] - x[1] (whether det is 0 and the sign of a do not
\* depend on origin and unit, -b/(2a) moves and scales with them), which
\* keeps the intermediate integers small.
Refined(derivatives, p, s) ==
    LET origin == derivatives[p].temperature
        ahead == RSub(derivatives[p + 1].temperature, origin)
        unit == IF ahead = Whole(0) THEN Whole(1) ELSE ahead
        x0 == RDiv(RSub(derivatives[p - 1].temperature, origin), unit)
        x1 == Whole(0)
        x2 == RDiv(ahead, unit)
        y0 == derivatives[p - 1].slope
        y1 == derivatives[p].slope
        y2 == derivatives[p + 1].slope
        x0_2 == RMul(x0, x0)
        x1_2 == RMul(x1, x1)
        x2_2 == RMul(x2, x2)
        det == RAdd(RSub(RMul(x0_2, RSub(x1, x2)), RMul(x0, RSub(x1_2, x2_2))),
                    RSub(RMul(x1_2, x2), RMul(x2_2, x1)))
        a == RDiv(RAdd(RSub(RMul(y0, RSub(x1, x2)), RMul(x0, RSub(y1, y2))),
                       RSub(RMul(y1, x2), RMul(y2, x1))), det)
        b == RDiv(RAdd(RSub(RMul(x0_2, RSub(y1, y2)), RMul(y0, RSub(x1_2, x2_2))),
                       RSub(RMul(x1_2, y2), RMul(x2_2, y1))), det)
        maxX == RAdd(origin, RMul(unit, RDiv(RNeg(b), RMul(Whole(2), a))))
    IN  IF det # Whole(0) /\ RLess(a, Whole(0))
           /\ RLeq(Whole(s.tempMin), maxX) /\ RLeq(maxX, Whole(s.tempMax))
        THEN maxX
        ELSE origin

\* estimateCriticalTemperatureFromData(data).value (lines 1664-1803); the
\* .error of the result is read nowhere
estimateCriticalTemperatureFromData(data, s) ==
    LET derivatives == Derivatives(SortByTemperature(data))
        p == PeakIndex(derivatives, 1, Whole(0), 0)
    IN  IF p = 0 THEN Null
        ELSE IF p >= 2 /\ p < Len(derivatives) THEN Refined(derivatives, p, s)
        ELSE derivatives[p].temperature

----------------------------------------------------------------------------
(* MagnetizationCalculator: state, handlers, effects and the suspended     *)
(* invocation of startCalculation.  A handler runs to completion; the      *)
(* render and the effects a click causes run with it.                      *)

\* KNOWN_CRITICAL_TEMPS (lines 927-931)
KNOWN_CRITICAL_TEMPS ==
    [grid |-> Whole(2270), triangular |-> Whole(3640), hexagonal |-> Whole(1520)]

\* the graphs the component is explored over, in place of the lattices of
\* loadExampleGraph (25 to 32 nodes) and of larger uploads: two coupled
\* nodes, and one node
TwoNodes == [i \in 0..1 |-> [j \in 0..1 |-> IF i = j THEN 0 ELSE 1]]

OneNode == ZeroMatrix(1)

ExploredGraphs == {TwoNodes, OneNode}

\* the edge lists the component is explored with: a two-node graph with
\* both directions of its edge, a list with a two-field line, a list of two
\* lines
ExploredTexts ==
    { << <<"1", "2", "1">>, <<"2", "1", "1">>, <<"1", "1", "0">> >>,
      << <<"1", "2", "1">>, <<"2", "1", "1">>, <<"1", "2">> >>,
      << <<"1", "2", "1">>, <<"2", "1", "1">> >> }

\* the values the explored user moves the sliders to
SimulationTemps == {1500, 3000}

TimeScales == {100, 500}

\* useState initial values (lines 884-886, 894-895, 910-912)
DefaultSettings ==
    [tempMin |-> 500, tempMax |-> 4000, tempPoints |-> 20,
     equilibrationSteps |-> 5000, measurementSteps |-> 500, measurementTrials |-> 50]

\* the settings the explored user types
ExploredSettings ==
    {[DefaultSettings EXCEPT !.tempPoints = 3, !.equilibrationSteps = 2000,
                             !.measurementTrials = k] : k \in {0, 1}}

\* tempPoints of the two-stage specification
TwoStagePoints == 11

\* const chunkSize = 2000 (line 1454)
chunkSize == 2000

\* the state once the component has mounted and the effect of lines
\* 1819-1823 has loaded the first graph (initializeIsingModel returns at
\* line 971: the handler's adjacencyMatrix is still null), with the
\* settings the user has typed
ComponentInit(graphs, typed) ==
    /\ adjacencyMatrix \in graphs
    /\ fileError = NULL
    /\ settings \in typed
    /\ reader = Null
    /\ isRealTimeSimulating = FALSE
    /\ simulationTemp = 1500
    /\ timeScale = 100
    /\ isingModelRef = Null
    /\ animationFrameRef = NULL
    /\ driverFrames = NoFrames
    /\ firstRunComplete = FALSE
    /\ initialTcEstimate = Null
    /\ isCalculating = FALSE
    /\ magnetizationData = <<>>
    /\ criticalTemp = KNOWN_CRITICAL_TEMPS.grid
    /\ abortController = Null
    /\ sweep = Null

ComponentIdle ==
    /\ adjacencyMatrix = ZeroMatrix(0)
    /\ fileError = NULL
    /\ settings = DefaultSettings
    /\ reader = Null
    /\ isRealTimeSimulating = FALSE
    /\ simulationTemp = 1500
    /\ timeScale = 100
    /\ isingModelRef = Null
    /\ animationFrameRef = NULL
    /\ driverFrames = NoFrames
    /\ firstRunComplete = FALSE
    /\ initialTcEstimate = Null
    /\ isCalculating = FALSE
    /\ magnetizationData = <<>>
    /\ criticalTemp = Null
    /\ abortController = Null
    /\ sweep = Null

\* initializeIsingModel (lines 970-978) in a handler whose render saw
\* `matrix` as adjacencyMatrix: the values isingModelRef.current can take
initializeIsingModel(matrix) == IsingModel(matrix)

\* the effect of lines 1016-1073 when it runs past the guard of line 1017:
\* 200 settling sweeps, then the first frame is requested
\* (ref: the instance, T: simulationTemp of the render)
DriverEffect(ref, T, frames) ==
    /\ isingModelRef' \in simulationSteps(ref, T, 200)
    /\ animationFrameRef' = "handle"
    /\ driverFrames' = requestAnimationFrame(frames)

\* a variant of the cleanup that does not call cancelAnimationFrame
DriverCleanup_KeepsFrame(frames) == frames

\* the cleanup of that effect (lines 1066-1072): the queue it leaves
DriverCleanup(frames) ==
    IF animationFrameRef # NULL THEN cancelAnimationFrame(frames) ELSE frames

\* toggleRealTimeSimulation (lines 981-1013) when the driver is stopped,
\* with the render it causes and the effect of that render
StartDriver ==
    /\ isRealTimeSimulating' = TRUE
    /\ \E ref \in (IF isingModelRef = Null
                   THEN initializeIsingModel(adjacencyMatrix)
                   ELSE {isingModelRef}) :
            DriverEffect(ref, simulationTemp, driverFrames)

\* a variant of the stop that draws the spins anew
StopDriver_ResetsSpins ==
    /\ isRealTimeSimulating' = FALSE
    /\ driverFrames' = DriverCleanup(driverFrames)
    /\ animationFrameRef' = NULL
    /\ isingModelRef' \in resetSpins(isingModelRef)

\* toggleRealTimeSimulation when the driver runs, with the render it causes:
\* the cleanup of the effect runs, the effect returns at line 1017
StopDriver ==
    /\ isRealTimeSimulating' = FALSE
    /\ driverFrames' = DriverCleanup(driverFrames)
    /\ animationFrameRef' = NULL
    /\ UNCHANGED isingModelRef

\* a variant of the Simulate button that is not disabled while isCalculating
ToggleRealTimeSimulation_Enabled ==
    /\ program = "component"
    /\ IF isRealTimeSimulating THEN StopDriver ELSE StartDriver
    /\ UNCHANGED <<program, call, classVars, vanillaVars, parseVars, adjacencyMatrix,
                   fileError, settings, reader, simulationTemp, timeScale, sweepVars>>

\* the Simulate button (lines 1989-1995, disabled while isCalculating)
ToggleRealTimeSimulation ==
    /\ program = "component"
    /\ ~isCalculating
    /\ IF isRealTimeSimulating THEN StopDriver ELSE StartDriver
    /\ UNCHANGED <<program, call, classVars, vanillaVars, parseVars, adjacencyMatrix,
                   fileError, settings, reader, simulationTemp, timeScale, sweepVars>>

\* const stepsPerFrame = Math.min(500, Math.max(50, timeScale)) (line 1033)
stepsPerFrame(scale) == Min(500, Max(50, scale))

\* the browser runs a queued runIsingSimulation (lines 1030-1060); the
\* isRealTimeSimulating of line 1057 is the one of the render that created
\* the callback, which is true
DriverTick ==
    /\ program = "component"
    /\ \E w \in Queued(driverFrames) :
        /\ isingModelRef' \in
                simulationSteps(isingModelRef, simulationTemp, stepsPerFrame(timeScale))
        /\ animationFrameRef' = "handle"
        /\ driverFrames' = requestAnimationFrame(Dequeue(driverFrames, w))
    /\ UNCHANGED <<program, call, classVars, vanillaVars, parseVars, adjacencyMatrix,
                   fileError, settings, reader, isRealTimeSimulating,
                   simulationTemp, timeScale, sweepVars>>

\* a dependency of the effect of lines 1016-1073 changed while the driver
\* runs: the cleanup, then the effect again
RestartDriverEffect(T) ==
    IF isRealTimeSimulating /\ isingModelRef # Null
    THEN IF animationFrameRef # NULL
         THEN DriverEffect(isingModelRef, T, cancelAnimationFrame(driverFrames))
         ELSE DriverEffect(isingModelRef, T, driverFrames)
    ELSE UNCHANGED <<isingModelRef, animationFrameRef, driverFrames>>

\* handleSimulationTempChange (lines 960-962; the slider is disabled while
\* isCalculating) with the render and the effect it causes
HandleSimulationTempChange ==
    /\ program = "component"
    /\ ~isCalculating
    /\ \E T \in SimulationTemps \ {simulationTemp} :
        /\ simulationTemp' = T
        /\ RestartDriverEffect(T)
    /\ UNCHANGED <<program, call, classVars, vanillaVars, parseVars, adjacencyMatrix,
                   fileError, settings, reader, isRealTimeSimulating,
                   timeScale, sweepVars>>

\* handleTimeScaleChange (lines 965-967), likewise
HandleTimeScaleChange ==
    /\ program = "component"
    /\ ~isCalculating
    /\ \E scale \in TimeScales \ {timeScale} :
        /\ timeScale' = scale
        /\ RestartDriverEffect(simulationTemp)
    /\ UNCHANGED <<program, call, classVars, vanillaVars, parseVars, adjacencyMatrix,
                   fileError, settings, reader, isRealTimeSimulating,
                   simulationTemp, sweepVars>>

\* the Random Spins button: resetSpins (lines 1076-1088)
ResetSpins ==
    /\ program = "component"
    /\ ~isCalculating
    /\ isingModelRef # Null
    /\ isingModelRef' \in resetSpins(isingModelRef)
    /\ UNCHANGED <<program, call, classVars, vanillaVars, parseVars, adjacencyMatrix,
                   fileError, settings, reader, isRealTimeSimulating,
                   simulationTemp, timeScale, animationFrameRef, driverFrames,
                   sweepVars>>

\* the All Up / All Down buttons: setAllSpins(1), setAllSpins(-1) (lines 1091-1103)
SetAllSpins ==
    /\ program = "component"
    /\ ~isCalculating
    /\ isingModelRef # Null
    /\ \E value \in {1, -1} : isingModelRef' = setAllSpins(isingModelRef, value)
    /\ UNCHANGED <<program, call, classVars, vanillaVars, parseVars, adjacencyMatrix,
                   fileError, settings, reader, isRealTimeSimulating,
                   simulationTemp, timeScale, animationFrameRef, driverFrames,
                   sweepVars>>

----------------------------------------------------------------------------
(* startCalculation (lines 1518-1654) and calculateMagnetizationAtTemperature *)
(* (lines 1442-1515).  The invocation runs from one await to the next      *)
(* without interruption; `sweep` holds its locals while it is suspended:   *)
(*   temperatures, i      the schedule and the index (from 1) in progress  *)
(*   results              const results                                    *)
(*   continuation, closureData                                             *)
(*                        firstRunComplete and magnetizationData of the    *)
(*                        render that created the invocation; the data is  *)
(*                        read under firstRunComplete only (line 1577) and *)
(*                        kept for that case                               *)
(*   model                const model                                      *)
(*   step                 `step` of the equilibration loop                 *)
(*   pc                   "equilibrating": at the await of line 1464,      *)
(*                        "recorded": at the await of line 1613            *)
(* A run of the invocation ends in an outcome [done, sweep, data]: done is *)
(* "no" (suspended again), "normal" (the loop was left) or "failed" (an    *)
(* exception reached the catch of line 1631); data is the value            *)
(* magnetizationData has after it.                                         *)

AbortedMessage == "Calculation failed: Calculation aborted"

Outcome(done, sw, data) == [done |-> done, sweep |-> sw, data |-> data]

\* lines 1577-1578: magnetizationData.some(d => Math.abs(d.temperature - temp) < 0.01)
\* under firstRunComplete
IsSkippedTemperature(sw, temp) ==
    /\ sw.continuation
    /\ \E k \in 1..Len(sw.closureData) :
            Abs(sw.closureData[k].temperature - temp) < 10

\* lines 1468-1510 and 1590-1613: the trials, the abort check after each
\* trial (line 1483; it throws after the first trial when aborted), the
\* data point pushed, setMagnetizationData(sortedResults), the await
Measure(sw, s, aborted) ==
    IF s.measurementTrials >= 1 /\ aborted
    THEN {Outcome("failed", sw, <<>>)}
    ELSE {LET results == Append(sw.results,
                                DataPoint(sw.temperatures[sw.i], r.values))
          IN  Outcome("no",
                      [sw EXCEPT !.results = results, !.model = r.model,
                                 !.pc = "recorded"],
                      SortByTemperature(results)) :
            r \in MeasurementTrials({[model |-> sw.model, values |-> <<>>]},
                                    sw.temperatures[sw.i],
                                    s.measurementSteps, s.measurementTrials)}

\* the equilibration loop of lines 1455-1465 entered at its condition with
\* sw.step steps done: the abort check (line 1456), one chunk, the await;
\* the measurement phase once the steps are done
Equilibrate(sw, s, aborted) ==
    IF sw.step < s.equilibrationSteps
    THEN IF aborted
         THEN {Outcome("failed", sw, <<>>)}
         ELSE {Outcome("no", [sw EXCEPT !.model = m, !.pc = "equilibrating"], <<>>) :
                m \in simulationSteps(sw.model, sw.temperatures[sw.i],
                                      Min(chunkSize, s.equilibrationSteps - sw.step))}
    ELSE Measure(sw, s, aborted)

\* the loop of lines 1569-1614 entered at its condition: the abort check
\* (line 1570), the temperatures skipped (lines 1577-1581), then
\* calculateMagnetizationAtTemperature
RECURSIVE LoopTop(_, _, _)
LoopTop(sw, s, aborted) ==
    IF sw.i > Len(sw.temperatures) \/ aborted
    THEN {Outcome("normal", sw, <<>>)}
    ELSE IF IsSkippedTemperature(sw, sw.temperatures[sw.i])
    THEN LoopTop([sw EXCEPT !.i = @ + 1], s, aborted)
    ELSE Equilibrate([sw EXCEPT !.step = 0], s, aborted)

\* the invocation resumes after the await it is suspended at
Resume(sw, s, aborted) ==
    IF sw.pc = "equilibrating"
    THEN Equilibrate([sw EXCEPT !.step = @ + chunkSize], s, aborted)
    ELSE LoopTop([sw EXCEPT !.i = @ + 1], s, aborted)

\* the units of work (equilibration chunks, measurement trials) the
\* invocation runs from where Equilibrate, LoopTop and Resume enter it to
\* its next await or its end: one chunk (lines 1460-1464), or every trial of
\* the loop of lines 1471-1486, which holds no await (one trial when the
\* check of line 1483 throws after it)
EquilibrateUnits(sw, s, aborted) ==
    IF sw.step < s.equilibrationSteps
    THEN (IF aborted THEN 0 ELSE 1)
    ELSE IF s.measurementTrials >= 1 /\ aborted THEN 1
    ELSE s.measurementTrials

RECURSIVE LoopTopUnits(_, _, _)
LoopTopUnits(sw, s, aborted) ==
    IF sw.i > Len(sw.temperatures) \/ aborted THEN 0
    ELSE IF IsSkippedTemperature(sw, sw.temperatures[sw.i])
    THEN LoopTopUnits([sw EXCEPT !.i = @ + 1], s, aborted)
    ELSE EquilibrateUnits([sw EXCEPT !.step = 0], s, aborted)

ResumeUnits(sw, s, aborted) ==
    IF sw.pc = "equilibrating"
    THEN EquilibrateUnits([sw EXCEPT !.step = @ + chunkSize], s, aborted)
    ELSE LoopTopUnits([sw EXCEPT !.i = @ + 1], s, aborted)

\* a variant of the test of line 1616 that lets five points through
HasEnoughData_FromFive(results) == Len(results) > 4

\* line 1616: results.length > 5
HasEnoughData(results) == Len(results) > 5

\* what a run of the invocation leaves in the component, given its outcome
\* o.  data0 and crit0 are magnetizationData and criticalTemp as set before
\* the run; firstRunComplete and initialTcEstimate are read as the render
\* that created the invocation saw them (no handler changes them while the
\* invocation lives).
\*   o.done = "no": setMagnetizationData when a point was recorded.
\*   "normal": lines 1616-1627, then the finally of lines 1634-1653.
\*   "failed": the catch of lines 1631-1633, then the finally.
\* The branch of lines 1642-1652 (restart after a first run) needs
\* firstRunComplete false with initialTcEstimate set; the two are only ever
\* set together (lines 1624-1625) and cleared together (lines 1640-1641).
Settle(o, s, data0, crit0) ==
    LET estimated == o.done = "normal" /\ HasEnoughData(o.sweep.results)
        value     == estimateCriticalTemperatureFromData(o.sweep.results, s)
        wasSecond == o.done # "no" /\ firstRunComplete /\ initialTcEstimate # Null
    IN  /\ magnetizationData' =
                IF o.done = "no" /\ o.sweep.pc = "recorded" THEN o.data ELSE data0
        /\ sweep' = IF o.done = "no" THEN o.sweep ELSE Null
        /\ isCalculating' = (o.done = "no")
        /\ fileError' = IF o.done = "failed" THEN AbortedMessage ELSE fileError
        /\ criticalTemp' = IF estimated THEN value ELSE crit0
        /\ firstRunComplete' =
                IF wasSecond THEN FALSE
                ELSE IF estimated /\ ~firstRunComplete THEN TRUE
                ELSE firstRunComplete
        /\ initialTcEstimate' =
                IF wasSecond THEN Null
                ELSE IF estimated /\ ~firstRunComplete THEN value
                ELSE initialTcEstimate

\* a variant whose results start empty in a continuation too
NewSweeps_Unseeded ==
    {[temperatures |->
            generateTemperaturePoints(
                IF firstRunComplete THEN initialTcEstimate ELSE Null, settings),
      i |-> 1,
      results |-> <<>>,
      continuation |-> firstRunComplete,
      closureData |-> IF firstRunComplete THEN magnetizationData ELSE <<>>,
      model |-> started,
      step |-> 0,
      pc |-> "recorded"] :
        started \in UNION {resetSpins(m) : m \in IsingModel(adjacencyMatrix)}}

\* the locals of startCalculation when it reaches the loop of line 1569
\* (lines 1542-1566): the instances `const model` can be
NewSweeps ==
    {[temperatures |->
            generateTemperaturePoints(
                IF firstRunComplete THEN initialTcEstimate ELSE Null, settings),
      i |-> 1,
      results |-> IF firstRunComplete THEN magnetizationData ELSE <<>>,
      continuation |-> firstRunComplete,
      closureData |-> IF firstRunComplete THEN magnetizationData ELSE <<>>,
      model |-> started,
      step |-> 0,
      pc |-> "recorded"] :
        started \in UNION {resetSpins(m) : m \in IsingModel(adjacencyMatrix)}}

\* a variant of startCalculation without the test of isCalculating of
\* line 1519, on a page that shows the Calculate button during a sweep
StartCalculation_Unguarded ==
    /\ program = "component"
    /\ ~isRealTimeSimulating
    /\ UNCHANGED <<isRealTimeSimulating, isingModelRef, animationFrameRef,
                   driverFrames>>
    /\ abortController' = [aborted |-> FALSE]
    /\ \E sw \in NewSweeps : \E o \in LoopTop(sw, settings, FALSE) :
            Settle(o, settings,
                   IF firstRunComplete THEN magnetizationData ELSE <<>>,
                   IF firstRunComplete THEN criticalTemp ELSE Null)
    /\ UNCHANGED <<program, call, classVars, vanillaVars, parseVars, adjacencyMatrix,
                   settings, reader, simulationTemp, timeScale>>

\* a variant of startCalculation that keeps the AbortController of the
\* sweep before instead of creating one (line 1537)
StartCalculation_SameController ==
    /\ program = "component"
    /\ ~isCalculating
    /\ ~isRealTimeSimulating
    /\ UNCHANGED <<isRealTimeSimulating, isingModelRef, animationFrameRef,
                   driverFrames>>
    /\ abortController' =
            IF abortController = Null THEN [aborted |-> FALSE] ELSE abortController
    /\ \E sw \in NewSweeps : \E o \in LoopTop(sw, settings, abortController'.aborted) :
            Settle(o, settings,
                   IF firstRunComplete THEN magnetizationData ELSE <<>>,
                   IF firstRunComplete THEN criticalTemp ELSE Null)
    /\ UNCHANGED <<program, call, classVars, vanillaVars, parseVars, adjacencyMatrix,
                   settings, reader, simulationTemp, timeScale>>

\* the Calculate button (lines 2122-2129: shown while not isCalculating,
\* disabled while isRealTimeSimulating): startCalculation up to its first
\* await, or to its end
StartCalculation ==
    /\ program = "component"
    /\ ~isCalculating
    /\ ~isRealTimeSimulating
    \* lines 1526-1528: toggleRealTimeSimulation() when the driver runs
    /\ IF isRealTimeSimulating
       THEN StopDriver
       ELSE UNCHANGED <<isRealTimeSimulating, isingModelRef, animationFrameRef,
                        driverFrames>>
    /\ abortController' = [aborted |-> FALSE]
    /\ \E sw \in NewSweeps : \E o \in LoopTop(sw, settings, FALSE) :
            \* lines 1531-1534: the data is cleared unless firstRunComplete
            Settle(o, settings,
                   IF firstRunComplete THEN magnetizationData ELSE <<>>,
                   IF firstRunComplete THEN criticalTemp ELSE Null)
    /\ UNCHANGED <<program, call, classVars, vanillaVars, parseVars, adjacencyMatrix,
                   settings, reader, simulationTemp, timeScale>>

\* a variant of the invocation that works on the instance of the driver
\* instead of the one of line 1562
ResumeCalculation_SharedModel ==
    /\ program = "component"
    /\ sweep # Null
    /\ \E o \in Resume(sweep, settings, abortController.aborted) :
            /\ Settle(o, settings, magnetizationData, criticalTemp)
            /\ isingModelRef' = o.sweep.model
    /\ UNCHANGED <<program, call, classVars, vanillaVars, parseVars, adjacencyMatrix,
                   settings, reader, isRealTimeSimulating, simulationTemp,
                   timeScale, animationFrameRef, driverFrames, abortController>>

\* a timer the suspended invocation awaits fires (lines 1464, 1613)
ResumeCalculation ==
    /\ program = "component"
    /\ sweep # Null
    /\ \E o \in Resume(sweep, settings, abortController.aborted) :
            Settle(o, settings, magnetizationData, criticalTemp)
    /\ UNCHANGED <<program, call, classVars, vanillaVars, parseVars, adjacencyMatrix,
                   settings, reader, driverVars, abortController>>

\* the Stop button (lines 2131-2136, shown while isCalculating):
\* stopCalculation (lines 1657-1661)
StopCalculation ==
    /\ program = "component"
    /\ isCalculating
    /\ abortController # Null
    /\ ~abortController.aborted
    /\ abortController' = [aborted |-> TRUE]
    /\ UNCHANGED <<program, call, classVars, vanillaVars, parseVars, adjacencyMatrix,
                   fileError, settings, reader, driverVars, firstRunComplete,
                   initialTcEstimate, isCalculating, magnetizationData,
                   criticalTemp, sweep>>

\* the button of the error banner (lines 1882-1884): setFileError(null)
DismissError ==
    /\ program = "component"
    /\ fileError # NULL
    /\ fileError' = NULL
    /\ UNCHANGED <<program, call, classVars, vanillaVars, parseVars, adjacencyMatrix,
                   settings, reader, driverVars, sweepVars>>

----------------------------------------------------------------------------
(* Loading a graph *)

\* estimateCriticalTemperature(matrix) (lines 1352-1389): the values it can
\* pass to setCriticalTemp.  `from` holds, per way the scan can have gone
\* up to temperature i, the instance, the previous magnetization, maxSlope
\* and estCritTemp.
QuickTemp(i) == RAdd(Whole(1000), RMul(Whole(i), Frac(3000, 9)))

RECURSIVE QuickScan(_, _)
QuickScan(from, i) ==
    IF i > 9 THEN {r.estCritTemp : r \in from}
    ELSE QuickScan(
            UNION {{LET mag   == calculateAbsoluteMagnetization(m2)
                        slope == RDiv(RSub(r.prev, mag), Frac(3000, 9))
                    IN  IF i >= 1 /\ RLess(r.maxSlope, slope)
                        THEN [model |-> m2, prev |-> mag, maxSlope |-> slope,
                              estCritTemp |->
                                RDiv(RAdd(QuickTemp(i - 1), QuickTemp(i)), Whole(2))]
                        ELSE [model |-> m2, prev |-> mag, maxSlope |-> r.maxSlope,
                              estCritTemp |-> r.estCritTemp] :
                    m2 \in UNION {simulationSteps(m1, Round(QuickTemp(i)), 500) :
                                    m1 \in simulationSteps(r.model, Round(QuickTemp(i)), 1000)}} :
                   r \in from},
            i + 1)

estimateCriticalTemperature(matrix) ==
    QuickScan({[model |-> m, prev |-> Whole(0), maxSlope |-> Whole(0),
                estCritTemp |-> Whole(2270)] : m \in IsingModel(matrix)}, 0)

\* estimateCriticalTemperature over the matrices the explored edge lists
\* load, evaluated once
QuickEstimates ==
    [matrix \in {onload(text).matrix : text \in ExploredTexts} |->
        estimateCriticalTemperature(matrix)]

\* the lattice buttons (lines 1836-1853, disabled while isCalculating):
\* loadExampleGraph(type) (lines 1228-1349).  matrix stands for the lattice
\* the switch builds; initializeIsingModel sees the adjacencyMatrix of the
\* render that created the handler.
LoadExampleGraph ==
    /\ program = "component"
    /\ ~isCalculating
    /\ \E type \in DOMAIN KNOWN_CRITICAL_TEMPS, matrix \in ExploredGraphs :
        /\ criticalTemp' = KNOWN_CRITICAL_TEMPS[type]
        /\ adjacencyMatrix' = matrix
    /\ isingModelRef' \in initializeIsingModel(adjacencyMatrix)
    /\ magnetizationData' = <<>>
    /\ UNCHANGED <<program, call, classVars, vanillaVars, parseVars, fileError, settings,
                   reader, isRealTimeSimulating, simulationTemp, timeScale,
                   animationFrameRef, driverFrames, firstRunComplete,
                   initialTcEstimate, isCalculating, abortController, sweep>>

\* the file input (lines 1862-1867, disabled while isCalculating):
\* handleFileUpload (lines 1118-1225) up to reader.readAsText, for a file
\* named *.csv; one read is in flight at a time
HandleFileUpload ==
    /\ program = "component"
    /\ ~isCalculating
    /\ reader = Null
    /\ \E text \in ExploredTexts :
            reader' = [text |-> text, adjacencyMatrix |-> adjacencyMatrix]
    /\ fileError' = NULL
    /\ magnetizationData' = <<>>
    /\ criticalTemp' = Null
    /\ UNCHANGED <<program, call, classVars, vanillaVars, parseVars, adjacencyMatrix,
                   settings, driverVars, firstRunComplete, initialTcEstimate,
                   isCalculating, abortController, sweep>>

\* reader.onload (lines 1132-1217); reader.adjacencyMatrix is the
\* adjacencyMatrix initializeIsingModel sees, the one of the render that
\* created the handler
ReaderOnload ==
    /\ program = "component"
    /\ reader # Null
    /\ reader' = Null
    /\ LET loaded == onload(reader.text)
       IN  IF loaded.loaded
           THEN /\ fileError' = IF loaded.fileError # NULL THEN loaded.fileError
                                ELSE fileError
                /\ adjacencyMatrix' = loaded.matrix
                /\ isingModelRef' \in initializeIsingModel(reader.adjacencyMatrix)
                /\ criticalTemp' \in QuickEstimates[loaded.matrix]
           ELSE /\ fileError' = loaded.fileError
                /\ UNCHANGED <<adjacencyMatrix, isingModelRef, criticalTemp>>
    /\ UNCHANGED <<program, call, classVars, vanillaVars, parseVars, settings,
                   isRealTimeSimulating, simulationTemp, timeScale,
                   animationFrameRef, driverFrames, firstRunComplete,
                   initialTcEstimate, isCalculating, magnetizationData,
                   abortController, sweep>>

\* the number inputs of lines 2031-2111 (disabled while isCalculating):
\* the user types another of the explored settings
HandleSettingsInput ==
    /\ program = "component"
    /\ ~isCalculating
    /\ settings' \in ExploredSettings \ {settings}
    /\ UNCHANGED <<program, call, classVars, vanillaVars, parseVars, adjacencyMatrix,
                   fileError, reader, driverVars, sweepVars>>

----------------------------------------------------------------------------
(* The lattices of loadExampleGraph (lines 1228-1349)                      *)

\* const size = 5 (lines 1234 and 1261), const size = 4 (line 1294)
GridSize == 5

HexagonalSize == 4

\* the matrix with matrix[a][b] = matrix[b][a] = 1 for every <<a, b>> of
\* links, 0 elsewhere
Linked(n, links) ==
    [a \in 0..(n - 1) |-> [b \in 0..(n - 1) |->
        IF <<a, b>> \in links \/ <<b, a>> \in links THEN 1 ELSE 0]]

\* a variant of the grid that links right neighbours only
GridLinks_RightOnly(size) ==
    LET Cells == (0..(size - 1)) \X (0..(size - 1))
    IN  {<<c[1] * size + c[2], c[1] * size + c[2] + 1>> :
            c \in {d \in Cells : d[2] < size - 1}}

\* the pairs the loops of the three cases assign (index = i * size + j)
GridLinks(size) ==
    LET Cells == (0..(size - 1)) \X (0..(size - 1))
    IN  {<<c[1] * size + c[2], c[1] * size + c[2] + 1>> :
            c \in {d \in Cells : d[2] < size - 1}}
        \cup
        {<<c[1] * size + c[2], c[1] * size + c[2] + size>> :
            c \in {d \in Cells : d[1] < size - 1}}

TriangularLinks(size) ==
    LET Cells == (0..(size - 1)) \X (0..(size - 1))
    IN  GridLinks(size)
        \cup
        {<<c[1] * size + c[2], c[1] * size + c[2] + size + 1>> :
            c \in {d \in Cells : d[1] < size - 1 /\ d[2] < size - 1}}

HexagonalLinks(size) ==
    LET Cells == (0..(size - 1)) \X (0..(size - 1))
    IN  {<<(c[1] * size + c[2]) * 2, (c[1] * size + c[2]) * 2 + 1>> : c \in Cells}
        \cup
        {<<(c[1] * size + c[2]) * 2 + 1, (c[1] * size + c[2] + 1) * 2>> :
            c \in {d \in Cells : d[2] < size - 1}}
        \cup
        {<<(c[1] * size + c[2]) * 2, ((c[1] + 1) * size + c[2]) * 2 + 1>> :
            c \in {d \in Cells : d[1] < size - 1}}

\* the matrix the switch of lines 1231-1326 builds
Lattice(type) ==
    IF type = "grid" THEN Linked(GridSize * GridSize, GridLinks(GridSize))
    ELSE IF type = "triangular"
    THEN Linked(GridSize * GridSize, TriangularLinks(GridSize))
    ELSE Linked(HexagonalSize * HexagonalSize * 2, HexagonalLinks(HexagonalSize))

\* lines 1334-1341: graphStats, edges counting the nonzero entries above the
\* diagonal
GraphStats(matrix) ==
    [nodes |-> Cardinality(DOMAIN matrix),
     edges |-> Cardinality({p \in (DOMAIN matrix) \X (DOMAIN matrix) :
                                p[1] < p[2] /\ matrix[p[1]][p[2]] # 0})]

\* what loadExampleGraph(type) passes to setAdjacencyMatrix, setCriticalTemp
\* and setGraphStats
loadExampleGraph(type) ==
    [adjacencyMatrix |-> Lattice(type),
     criticalTemp |-> KNOWN_CRITICAL_TEMPS[type],
     graphStats |-> GraphStats(Lattice(type))]

----------------------------------------------------------------------------
(* Functions of the component applied to arguments                         *)

\* the attributes of the Points input (lines 2055-2056)
MinTempPoints == 5

MaxTempPoints == 50

\* tempMin and tempMax as the user can set them, on the 0.1 grid of their
\* inputs (lines 2031-2052), among them the narrowest ranges and ranges
\* that are empty or reversed
ScheduleRanges ==
    { <<500, 4000>>, <<100, 500>>, <<400, 500>>, <<4900, 5000>>, <<100, 10000>>,
      <<5000, 10000>>, <<500, 500>>, <<1000, 500>> }

\* values of initialTcEstimate: on and off the 0.001 grid, inside and
\* outside the ranges
CenterEstimates ==
    { Whole(2270), Frac(11353, 5), Frac(11352, 5), Whole(600), Whole(4500) }

\* the arguments generateTemperaturePoints is explored with: its parameter
\* and the settings it reads
ScheduleArgs ==
    {[initialEstimate |-> e,
      settings |-> [DefaultSettings EXCEPT !.tempMin = r[1], !.tempMax = r[2],
                                           !.tempPoints = n]] :
        e \in CenterEstimates \cup {Null}, r \in ScheduleRanges,
        n \in 2..MaxTempPoints}

\* the data estimateCriticalTemperatureFromData is explored with: up to
\* MaxData points in the order a sweep records them (descending
\* temperature, 0.5 apart), each with one of three mean magnetizations
MaxData == 6

Magnetizations == {Whole(0), Frac(1, 2), Whole(1)}

EstimatorData ==
    UNION {{[k \in 1..n |->
                [temperature |-> 500 * (n - k + 1), magnetization |-> mags[k],
                 variance |-> Whole(0)]] : mags \in [1..n -> Magnetizations]} :
           n \in 0..MaxData}

\* the magnetizations the trials of one temperature are explored with: 1 to
\* MaxTrials values
MaxTrials == 3

TrialValues == UNION {[1..n -> Magnetizations] : n \in 1..MaxTrials}

NotCalled(function, args) ==
    [function |-> function, args |-> args, done |-> FALSE, returned |-> <<>>]

FunctionInit ==
    \/ \E a \in ScheduleArgs : call = NotCalled("generateTemperaturePoints", a)
    \/ \E t \in DOMAIN KNOWN_CRITICAL_TEMPS :
            call = NotCalled("loadExampleGraph", [type |-> t])
    \/ \E d \in EstimatorData :
            call = NotCalled("estimateCriticalTemperatureFromData", [data |-> d])
    \/ \E v \in TrialValues :
            call = NotCalled("calculateMagnetizationAtTemperature",
                             [magnetizationValues |-> v])

Return(value) ==
    /\ call' = [call EXCEPT !.done = TRUE, !.returned = value]
    /\ UNCHANGED <<program, classVars, vanillaVars, parseVars, componentVars>>

CallGenerateTemperaturePoints ==
    /\ program = "function"
    /\ call.function = "generateTemperaturePoints" /\ ~call.done
    /\ Return(generateTemperaturePoints(call.args.initialEstimate, call.args.settings))

CallLoadExampleGraph ==
    /\ program = "function"
    /\ call.function = "loadExampleGraph" /\ ~call.done
    /\ Return(loadExampleGraph(call.args.type))

\* estimateCriticalTemperatureFromData(data) under the default settings:
\* its sortedData, the magnetizations of its smoothedData, and .value
CallEstimateCriticalTemperatureFromData ==
    /\ program = "function"
    /\ call.function = "estimateCriticalTemperatureFromData" /\ ~call.done
    /\ Return([sortedData |-> SortByTemperature(call.args.data),
               smoothedData |-> Smoothed(SortByTemperature(call.args.data)),
               value |-> estimateCriticalTemperatureFromData(call.args.data,
                                                             DefaultSettings)])

\* the statistics calculateMagnetizationAtTemperature computes from the
\* magnetizationValues its trials collected (lines 1491-1497): meanMag and
\* variance (stdDev is its square root)
CallCalculateStatistics ==
    /\ program = "function"
    /\ call.function = "calculateMagnetizationAtTemperature" /\ ~call.done
    /\ Return([mean |-> Mean(call.args.magnetizationValues),
               variance |-> Variance(call.args.magnetizationValues)])
----------------------------------------------------------------------------
(* Specifications *)

ClassNext ==
    \/ CallSimulationSteps
    \/ AttemptAccept
    \/ AttemptReject
    \/ ClassResetSpins
    \/ ClassSetAllSpins

VanillaNext ==
    \/ VanillaStartStop
    \/ VanillaFrame
    \/ VanillaReset

ParseNext ==
    \/ CallParseOuter
    \/ CallParseInner
    \/ CallOnload

DriverNext ==
    \/ ToggleRealTimeSimulation
    \/ DriverTick
    \/ HandleSimulationTempChange
    \/ HandleTimeScaleChange
    \/ ResetSpins
    \/ SetAllSpins

SweepNext ==
    \/ StartCalculation
    \/ ResumeCalculation
    \/ StopCalculation
    \/ DismissError

LoadNext ==
    \/ LoadExampleGraph
    \/ HandleFileUpload
    \/ ReaderOnload
    \/ HandleSettingsInput

\* the two IsingModel classes: the class of Working_Ising.jsx driven call by
\* call, and the page of ising-vanilla.js
ClassSpecInit ==
    \/ program = "class" /\ ClassInit /\ VanillaIdle /\ ParseIdle /\ call = Null /\ ComponentIdle
    \/ program = "vanilla" /\ ClassIdle /\ VanillaInit /\ ParseIdle /\ call = Null /\ ComponentIdle

ClassSpec == ClassSpecInit /\ [][ClassNext \/ VanillaNext]_vars

\* the parsers applied to every text of up to MaxLines lines
ParseSpecInit ==
    program = "parse" /\ ClassIdle /\ VanillaIdle /\ ParseInit /\ call = Null /\ ComponentIdle

ParseSpec == ParseSpecInit /\ [][ParseNext]_vars

\* generateTemperaturePoints, loadExampleGraph,
\* estimateCriticalTemperatureFromData and the statistics of
\* calculateMagnetizationAtTemperature applied to arguments
FunctionNext ==
    \/ CallGenerateTemperaturePoints
    \/ CallLoadExampleGraph
    \/ CallEstimateCriticalTemperatureFromData
    \/ CallCalculateStatistics

FunctionSpecInit ==
    /\ program = "function"
    /\ ClassIdle /\ VanillaIdle /\ ParseIdle /\ ComponentIdle
    /\ FunctionInit

FunctionSpec == FunctionSpecInit /\ [][FunctionNext]_vars

\* the page of Working_Ising.jsx as the user loads graphs, types settings,
\* moves the sliders and works the real-time driver (no sweep is started),
\* and the page of ising-vanilla.js
Init ==
    \/ /\ program = "component"
       /\ ClassIdle /\ VanillaIdle /\ ParseIdle /\ call = Null
       /\ ComponentInit(ExploredGraphs, ExploredSettings)
    \/ program = "vanilla" /\ ClassIdle /\ VanillaInit /\ ParseIdle /\ call = Null /\ ComponentIdle

Next == DriverNext \/ LoadNext \/ VanillaNext

Spec == Init /\ [][Next]_vars

\* the page of Working_Ising.jsx as the user works the driver and the
\* sweep over the graph loaded at mount, with a schedule of three
\* temperatures
SweepInit ==
    /\ program = "component"
    /\ ClassIdle /\ VanillaIdle /\ ParseIdle /\ call = Null
    /\ ComponentInit({TwoNodes}, ExploredSettings)

SweepSpecNext ==
    \/ SweepNext
    \/ ToggleRealTimeSimulation
    \/ DriverTick
    \/ HandleSettingsInput

SweepSpec == SweepInit /\ [][SweepSpecNext]_vars

\* first runs of a two-stage measurement over the two-node graph: Calculate
\* is pressed while no first run is complete, with a schedule of
\* FirstRunPoints temperatures or of one more (0.7 apart, from 0.5) and one
\* trial at each, or with a schedule of three temperatures, two chunks of
\* equilibration and two trials at each
FirstRunPoints == 6

FirstRunSettings ==
    {[DefaultSettings EXCEPT !.tempPoints = FirstRunPoints,
                             !.tempMax = 500 + 700 * (FirstRunPoints - 1),
                             !.equilibrationSteps = 2000,
                             !.measurementTrials = 1],
     [DefaultSettings EXCEPT !.tempPoints = FirstRunPoints + 1,
                             !.tempMax = 500 + 700 * FirstRunPoints,
                             !.equilibrationSteps = 2000,
                             !.measurementTrials = 1],
     [DefaultSettings EXCEPT !.tempPoints = 3,
                             !.equilibrationSteps = 4000,
                             !.measurementTrials = 2]}

FirstRunInit ==
    /\ program = "component"
    /\ ClassIdle /\ VanillaIdle /\ ParseIdle /\ call = Null
    /\ ComponentInit({TwoNodes}, FirstRunSettings)

FirstRunNext ==
    \/ ~firstRunComplete /\ StartCalculation
    \/ ResumeCalculation
    \/ StopCalculation
    \/ DismissError

FirstRunSpec == FirstRunInit /\ [][FirstRunNext]_vars

\* the continuation of a two-stage measurement over the two-node graph with
\* a schedule of TwoStagePoints temperatures, from the states a first run
\* can leave: at every temperature of the linear schedule the one trial
\* found the two spins aligned (magnetization 1) below `curie` and opposed
\* (magnetization 0) from `curie` on
TwoStageSettings ==
    [DefaultSettings EXCEPT !.tempPoints = TwoStagePoints,
                            !.equilibrationSteps = 2000,
                            !.measurementTrials = 1]

FirstRunCuries == {600}

FirstRunData(curie) ==
    LET temperatures == generateTemperaturePoints(Null, TwoStageSettings)
    IN  SortByTemperature(
            [k \in 1..Len(temperatures) |->
                DataPoint(temperatures[k],
                          <<IF temperatures[k] < curie THEN Whole(1) ELSE Whole(0)>>)])

TwoStageInit ==
    /\ program = "component"
    /\ ClassIdle /\ VanillaIdle /\ ParseIdle /\ call = Null
    /\ adjacencyMatrix = TwoNodes
    /\ fileError = NULL
    /\ settings = TwoStageSettings
    /\ reader = Null
    /\ isRealTimeSimulating = FALSE
    /\ simulationTemp = 1500
    /\ timeScale = 100
    /\ isingModelRef = Null
    /\ animationFrameRef = NULL
    /\ driverFrames = NoFrames
    /\ isCalculating = FALSE
    /\ abortController = [aborted |-> FALSE]
    /\ sweep = Null
    /\ \E curie \in FirstRunCuries :
        /\ magnetizationData = FirstRunData(curie)
        /\ firstRunComplete = TRUE
        /\ initialTcEstimate =
                estimateCriticalTemperatureFromData(FirstRunData(curie), TwoStageSettings)
        /\ criticalTemp = initialTcEstimate

\* Calculate continues the measurement; when the continuation was stopped
\* before it recorded a measurement, the user types one of the explored
\* settings (a schedule of three temperatures) and Calculate starts a fresh
\* sweep
TwoStageNext ==
    \/ (firstRunComplete \/ settings \in ExploredSettings) /\ StartCalculation
    \/ ResumeCalculation
    \/ StopCalculation
    \/ DismissError
    \/ (~firstRunComplete /\ Len(magnetizationData) <= TwoStagePoints)
            /\ HandleSettingsInput

TwoStageSpec == TwoStageInit /\ [][TwoStageNext]_vars

----------------------------------------------------------------------------
(* Properties *)

(* C1: for any symmetric weighted graph and any sequence of Metropolis     *)
(* steps from a freshly initialised instance, the cached energy equals the *)
(* total energy recomputed from scratch after every step.                  *)
C1_EnergyConsistency ==
    program = "class" => model.energy = calculateTotalEnergy(model)

(* C2: once a sweep has been cancelled, the recorded measurement list      *)
(* stays what it was at the cancel for as long as the sweep lives: it      *)
(* holds the points completed before the cancel and nothing for the        *)
(* temperature in flight.                                                  *)
C2_CancelKeepsRecorded ==
    [][(program = "component" /\ isCalculating /\ abortController.aborted)
            => magnetizationData' = magnetizationData]_vars

(* C3: the real-time driver and a sweep are never both active: in every    *)
(* reachable state not both isCalculating and isRealTimeSimulating hold,   *)
(* and while a sweep is in progress no frame of the driver is queued.      *)
C3_DriverAndSweepExclusive ==
    program = "component" =>
        /\ ~(isCalculating /\ isRealTimeSimulating)
        /\ isCalculating => Queued(driverFrames) = {}

\* a sweep is in progress on a page whose driver has run (and was stopped)
C3_SweepAfterDriver ==
    /\ program = "component"
    /\ isCalculating
    /\ isingModelRef # Null
    /\ ~isRealTimeSimulating

(* C4: cancelling a sweep is no failure: no state has the error message    *)
(* of an aborted calculation.                                              *)
C4_CancelIsNotAnError == fileError # AbortedMessage

(* C5: every spin is +1 or -1, in the instances of the class of            *)
(* Working_Ising.jsx after construction, Metropolis attempts, resetSpins   *)
(* and setAllSpins, and in the model of ising-vanilla.js after             *)
(* simulateSteps and reset.                                                *)
C5_SpinsAreUnit ==
    /\ program = "class" =>
            \A i \in Nodes(model.adjacencyMatrix) : model.state[i] \in {1, -1}
    /\ program = "vanilla" =>
            \A idx \in Sites(vanilla.size) : vanilla.spins[idx] \in {1, -1}

\* the page of ising-vanilla.js is running, frames of simulateSteps have
\* run, and the spins are all down
C5_AfterVanillaFrames ==
    /\ program = "vanilla"
    /\ running
    /\ animationId # NULL
    /\ \A idx \in Sites(vanilla.size) : vanilla.spins[idx] = -1

(* C6: when no sweep is in progress (in particular after a two-stage       *)
(* continuation has ended) no two measurements of the list have            *)
(* temperatures within 0.01 of each other.                                 *)
C6_NoNearDuplicates ==
    (program = "component" /\ ~isCalculating) =>
        \A a \in 1..Len(magnetizationData) : \A b \in 1..Len(magnetizationData) :
            a # b => Abs(magnetizationData[a].temperature
                         - magnetizationData[b].temperature) >= 10

(* C7: the graph an upload loads is symmetric.                             *)
C7_LoadedGraphSymmetric ==
    (parsed.by = "handleFileUpload" /\ parsed.loaded) => IsSymmetric(parsed.matrix)

\* a line that is neither blank nor a comment and has fewer than 3 fields,
\* a field that is no number, or a row or column index that is not positive
C8_Malformed(line) ==
    /\ ~IsSkipped(line)
    /\ \/ Len(line) < 3
       \/ parseInt(line[1]).nan \/ parseInt(line[2]).nan \/ parseInt(line[3]).nan
       \/ parseInt(line[1]).value <= 0
       \/ parseInt(line[2]).value <= 0

C9_Quiet ==
    /\ (program = "component" /\ ~isRealTimeSimulating)
            => (Queued(driverFrames) = {} /\ animationFrameRef = NULL)
    /\ (program = "vanilla" /\ ~running) => Queued(vanillaFrames) = {}

(* C9: a stopped driver is quiet, on both pages: before and after every    *)
(* step, a stopped driver has no frame queued; no step from a state with   *)
(* the driver stopped is a tick; and in such a state the cancellation a    *)
(* stop performs changes nothing.                                          *)
C9_StoppedDriverIsQuiet ==
    [][/\ C9_Quiet
       /\ C9_Quiet'
       /\ (program = "component" /\ ~isRealTimeSimulating) => ~DriverTick
       /\ (program = "vanilla" /\ ~running) => ~VanillaFrame
       /\ (program = "component" /\ ~isRealTimeSimulating)
            => DriverCleanup(driverFrames) = driverFrames
       /\ (program = "vanilla" /\ ~running)
            => cancelAnimationFrame(vanillaFrames) = vanillaFrames]_vars

\* the driver of the component has run Metropolis updates (the cached
\* energy has left the recomputed one) and is stopped
C9_StoppedAfterRunning ==
    /\ program = "component"
    /\ ~isRealTimeSimulating
    /\ isingModelRef # Null
    /\ isingModelRef.energy # calculateTotalEnergy(isingModelRef)

(* C10: the step that stops the driver leaves the spins and the cached     *)
(* energy as they are, on both pages.                                      *)
C10_StopKeepsSpinSystem ==
    [][/\ (program = "component" /\ isRealTimeSimulating /\ ~isRealTimeSimulating')
            => isingModelRef' = isingModelRef
       /\ (program = "vanilla" /\ running /\ ~running')
            => vanilla' = vanilla]_vars

\* the page of ising-vanilla.js has run frames and is stopped
C10_VanillaStopped ==
    /\ program = "vanilla"
    /\ ~running
    /\ animationId # NULL

\* generateTemperaturePoints has returned the linear schedule
C11_LinearCall ==
    /\ program = "function"
    /\ call.function = "generateTemperaturePoints"
    /\ call.done
    /\ call.args.initialEstimate = Null

(* C11: for tempMin < tempMax and tempPoints within the range of its input, *)
(* the linear schedule (generateTemperaturePoints without an estimate) has *)
(* exactly tempPoints values, is strictly descending, starts at tempMax    *)
(* and ends at tempMin.                                                    *)
C11_LinearSchedule ==
    (/\ C11_LinearCall
     /\ call.args.settings.tempMin < call.args.settings.tempMax
     /\ call.args.settings.tempPoints \in MinTempPoints..MaxTempPoints)
    => /\ Len(call.returned) = call.args.settings.tempPoints
       /\ \A k \in 1..(Len(call.returned) - 1) : call.returned[k] > call.returned[k + 1]
       /\ call.returned[1] = call.args.settings.tempMax
       /\ call.returned[Len(call.returned)] = call.args.settings.tempMin

\* the linear schedule of MaxTempPoints temperatures over a range of 0.1
C11_NarrowestRange ==
    /\ C11_LinearCall
    /\ call.args.settings.tempMax - call.args.settings.tempMin = 100
    /\ call.args.settings.tempPoints = MaxTempPoints
    /\ Len(call.returned) = MaxTempPoints

\* generateTemperaturePoints has returned the adaptive schedule for an
\* estimate inside [tempMin, tempMax]
C12_AdaptiveCall ==
    /\ program = "function"
    /\ call.function = "generateTemperaturePoints"
    /\ call.done
    /\ call.args.initialEstimate # Null
    /\ RLeq(Whole(call.args.settings.tempMin), call.args.initialEstimate)
    /\ RLeq(call.args.initialEstimate, Whole(call.args.settings.tempMax))

\* the indices of the returned temperatures within [estimate - 0.5 - slack,
\* estimate + 0.5 + slack]
C12_Within(slack) ==
    {k \in 1..Len(call.returned) :
        /\ RLeq(RSub(RSub(call.args.initialEstimate, Whole(margin)), slack),
                Whole(call.returned[k]))
        /\ RLeq(Whole(call.returned[k]),
                RAdd(RAdd(call.args.initialEstimate, Whole(margin)), slack))}

(* C12: for an estimate inside [tempMin, tempMax], at least 60% of the     *)
(* temperatures of the adaptive schedule lie within                        *)
(* [estimate - 0.5, estimate + 0.5].                                       *)
C12_ClusteredAroundEstimate ==
    C12_AdaptiveCall =>
        10 * Cardinality(C12_Within(Whole(0))) >= 6 * Len(call.returned)

(* C12 as amended: at least 60% of the temperatures lie within             *)
(* [estimate - 0.5, estimate + 0.5] up to the rounding to three decimals   *)
(* (within 0.0005 of the interval).                                        *)
C12_ClusteredUpToRounding ==
    C12_AdaptiveCall =>
        10 * Cardinality(C12_Within(Frac(1, 2))) >= 6 * Len(call.returned)

\* a temperature of the schedule lies outside the interval by less than
\* the rounding, and others lie outside it by more
C12_RoundedOutOfWindow ==
    /\ C12_AdaptiveCall
    /\ Cardinality(C12_Within(Whole(0))) < Cardinality(C12_Within(Frac(1, 2)))
    /\ Len(call.returned) > Cardinality(C12_Within(Frac(1, 2)))

(* C13: a critical temperature is estimated from the data of a sweep only  *)
(* when the sweep has at least 6 measurements: a sweep that ends with 5 or *)
(* fewer leaves criticalTemp and initialTcEstimate as they were and        *)
(* firstRunComplete false, and no estimate is made while the sweep is in   *)
(* progress.                                                               *)
C13_EstimateNeedsSixPoints ==
    [][(program = "component" /\ isCalculating) =>
            /\ (~isCalculating' /\ Len(sweep.results) <= 5) =>
                    /\ criticalTemp' = criticalTemp
                    /\ initialTcEstimate' = initialTcEstimate
                    /\ ~firstRunComplete'
            /\ isCalculating' =>
                    /\ criticalTemp' = criticalTemp
                    /\ initialTcEstimate' = initialTcEstimate
                    /\ firstRunComplete' = firstRunComplete]_vars

\* a sweep was cancelled with five measurements recorded and has ended
C13_EndedWithFivePoints ==
    /\ program = "component"
    /\ ~isCalculating
    /\ abortController # Null
    /\ abortController.aborted
    /\ Len(magnetizationData) = 5
    /\ criticalTemp = Null
    /\ ~firstRunComplete

(* C14: while a sweep is suspended, the invocation runs at most one unit   *)
(* of work (an equilibration chunk or a measurement trial) when it resumes *)
(* before it yields again or ends, so that a cancel requested meanwhile is *)
(* observed after at most one unit.                                        *)
C14_OneUnitBetweenYields ==
    (program = "component" /\ sweep # Null) =>
        ResumeUnits(sweep, settings, abortController.aborted) <= 1

(* C15: a sweep is not started with a parameter out of range: with tempMin *)
(* <= 0 or measurementTrials 0 in the settings, Calculate is rejected at   *)
(* entry, so no sweep is in progress (no Metropolis step of a sweep runs   *)
(* and no measurement is recorded).                                        *)
C15_OutOfRangeIsRejected ==
    (/\ program = "component"
     /\ \/ settings.tempMin <= 0
        \/ settings.measurementTrials = 0)
    => (~isCalculating /\ sweep = Null)

\* the sum of the weights of the undirected edges of a symmetric matrix
\* (one entry for each pair of distinct nodes)
C16_EdgeWeightSum(matrix) ==
    LET edges == {e \in Nodes(matrix) \X Nodes(matrix) : e[1] < e[2]}
    IN  SumOver(edges, [e \in edges |-> matrix[e[1]][e[2]]])

(* C16: after setAllSpins(1) and after setAllSpins(-1) on a symmetric      *)
(* graph the cached energy equals the energy recomputed from scratch and   *)
(* equals -J times the sum of the undirected edge weights (the energy is   *)
(* held in units of 1/2).                                                  *)
C16_AlignedEnergy ==
    [][ClassSetAllSpins =>
            /\ model'.energy = calculateTotalEnergy(model')
            /\ model'.energy = 2 * (-J) * C16_EdgeWeightSum(model'.adjacencyMatrix)]_vars

\* every spin is down, as setAllSpins(-1) leaves them, on a graph whose edge
\* weighs 2, and the cached energy is -J times that weight
C16_AllDownAfterSteps ==
    /\ program = "class"
    /\ attemptsLeft = 0
    /\ \A i \in Nodes(model.adjacencyMatrix) : model.state[i] = -1
    /\ C16_EdgeWeightSum(model.adjacencyMatrix) = 2
    /\ model.energy = 2 * (-J) * 2

\* loadExampleGraph('grid') has returned
C17_GridCall ==
    /\ program = "function"
    /\ call.function = "loadExampleGraph"
    /\ call.done
    /\ call.args.type = "grid"

(* C17: the 5x5 square lattice loadExampleGraph('grid') builds has 25      *)
(* nodes and exactly 40 undirected edges, is symmetric, has no self-loop,  *)
(* and the critical temperature set with it is 2.27.                       *)
C17_SquareLattice ==
    C17_GridCall =>
        LET matrix == call.returned.adjacencyMatrix
        IN  /\ Cardinality(Nodes(matrix)) = 25
            /\ Cardinality({e \in Nodes(matrix) \X Nodes(matrix) :
                                e[1] < e[2] /\ matrix[e[1]][e[2]] # 0}) = 40
            /\ IsSymmetric(matrix)
            /\ \A i \in Nodes(matrix) : matrix[i][i] = 0
            /\ call.returned.criticalTemp = Whole(2270)

\* the lattice has been built: its corner 0 is linked to its right and
\* bottom neighbours 1 and 5 and to no other node
C17_GridBuilt ==
    /\ C17_GridCall
    /\ call.returned.graphStats.nodes = 25
    /\ {j \in Nodes(call.returned.adjacencyMatrix) :
            call.returned.adjacencyMatrix[0][j] # 0} = {1, 5}

\* the sites whose spin differs between two spin assignments
C18_Changed(before, after) == {i \in DOMAIN before : after[i] # before[i]}

(* C18: one Metropolis step changes at most one spin.  In the class of     *)
(* Working_Ising.jsx a step that changes spin i negates it and adds        *)
(* calculateDeltaEnergy of i to the cached energy; a step that changes no  *)
(* spin leaves the instance as it is and happens only when some site has a *)
(* positive delta (a site whose delta is <= 0 is always flipped).  In      *)
(* ising-vanilla.js every outcome of one iteration of simulateSteps        *)
(* differs from the spins in at most one site, negated, and the outcome    *)
(* that changes nothing exists only when some site has a positive dE.      *)
C18_SingleSpinStep ==
    [][/\ (program = "class" /\ attemptsLeft' = attemptsLeft - 1) =>
            LET changed == C18_Changed(model.state, model'.state)
            IN  /\ Cardinality(changed) <= 1
                /\ \A i \in changed :
                        /\ model'.state[i] = -1 * model.state[i]
                        /\ model'.energy = model.energy + calculateDeltaEnergy(model, i)
                /\ changed = {} =>
                        /\ model' = model
                        /\ \E site \in Nodes(model.adjacencyMatrix) :
                                calculateDeltaEnergy(model, site) > 0
       /\ program = "vanilla" =>
            \A after \in VanillaAttempts[vanilla] :
                LET changed == C18_Changed(vanilla.spins, after.spins)
                IN  /\ Cardinality(changed) <= 1
                    /\ \A idx \in changed :
                            after.spins[idx] = -1 * vanilla.spins[idx]
                    /\ changed = {} =>
                            \E i \in 0..(vanilla.size - 1), j \in 0..(vanilla.size - 1) :
                                vanillaDeltaE(vanilla, i, j) > 0]_vars

\* one iteration of a call of simulationSteps on two nodes remains, and an
\* accepted flip has moved the cached energy off the recomputed one
C18_AfterAcceptedFlip ==
    /\ program = "class"
    /\ model.numNodes = 2
    /\ attemptsLeft = 1
    /\ model.energy # calculateTotalEnergy(model)

(* C19: the step that starts a sweep (Calculate, up to the first await)    *)
(* empties the measurement list if the sweep is no two-stage continuation  *)
(* and leaves it as it is if it is one; while a                            *)
(* continuation is in progress and when it ends, every measurement the     *)
(* first run recorded is still in the list, unchanged.                     *)
C19_ClearedUnlessContinuation ==
    [][program = "component" =>
            /\ (~isCalculating /\ isCalculating') =>
                    magnetizationData' =
                        IF firstRunComplete THEN magnetizationData ELSE <<>>
            /\ (sweep # Null /\ sweep.continuation) =>
                    \A k \in 1..Len(sweep.closureData) :
                        \E j \in 1..Len(magnetizationData') :
                            magnetizationData'[j] = sweep.closureData[k]]_vars

\* a continuation has ended with new measurements added to those of the
\* first run
C19_ContinuationEnded ==
    /\ program = "component"
    /\ ~isCalculating
    /\ ~firstRunComplete
    /\ settings = TwoStageSettings
    /\ Len(magnetizationData) > TwoStagePoints

(* C20: the smoothing of estimateCriticalTemperatureFromData replaces the  *)
(* magnetization of every interior point i (1 <= i <= n-2, counting from   *)
(* 0) of the temperature-sorted data by the mean of the points i-1, i and  *)
(* i+1, and copies the first and the last point only.                      *)
C20_InteriorPointsSmoothed ==
    (/\ program = "function"
     /\ call.function = "estimateCriticalTemperatureFromData"
     /\ call.done)
    => LET sortedData == call.returned.sortedData
           n          == Len(sortedData)
       IN  /\ Len(call.returned.smoothedData) = n
           /\ \A k \in 1..n :
                call.returned.smoothedData[k] =
                    IF k = 1 \/ k = n
                    THEN sortedData[k].magnetization
                    ELSE RDiv(RAdd(RAdd(sortedData[k - 1].magnetization,
                                        sortedData[k].magnetization),
                                   sortedData[k + 1].magnetization),
                              Whole(3))

\* the negated slope between the points k and k+1 of the sorted data, taken
\* over the magnetizations mags
C21_Slope(sortedData, mags, k) ==
    RDiv(RSub(mags[k], mags[k + 1]),
         Whole(sortedData[k + 1].temperature - sortedData[k].temperature))

(* C21: for every measurement sequence of at least 6 points                *)
(* estimateCriticalTemperatureFromData returns an estimate, and the        *)
(* estimate is the midpoint temperature of an adjacent pair of the sorted  *)
(* data whose negated slope is maximal.                                    *)
C21_EstimateIsSteepestMidpoint ==
    (/\ program = "function"
     /\ call.function = "estimateCriticalTemperatureFromData"
     /\ call.done
     /\ Len(call.args.data) >= 6)
    => LET sortedData == call.returned.sortedData
           mags       == call.returned.smoothedData
           pairs      == 1..(Len(sortedData) - 1)
       IN  /\ call.returned.value # Null
           /\ \E k \in pairs :
                /\ call.returned.value =
                        Frac(sortedData[k].temperature + sortedData[k + 1].temperature, 2)
                /\ \A j \in pairs :
                        RLeq(C21_Slope(sortedData, mags, j),
                             C21_Slope(sortedData, mags, k))

(* C22: the mean recorded for a temperature is the arithmetic mean of the  *)
(* K trial magnetizations, and the standard deviation is their sample      *)
(* standard deviation: its square is the sum of the squared deviations     *)
(* from the mean divided by K - 1 (for K >= 2).                            *)
C22_SampleStandardDeviation ==
    (/\ program = "function"
     /\ call.function = "calculateMagnetizationAtTemperature"
     /\ call.done
     /\ Len(call.args.magnetizationValues) >= 2)
    => LET values == call.args.magnetizationValues
           K      == Len(values)
           mean   == RDiv(SumSeq(values), Whole(K))
           squaredDiffs ==
                [k \in 1..K |-> RMul(RSub(values[k], mean), RSub(values[k], mean))]
       IN  /\ call.returned.mean = mean
           /\ call.returned.variance = RDiv(SumSeq(squaredDiffs), Whole(K - 1))

(* C23: when a first run has completed with an estimate (firstRunComplete  *)
(* set, initialTcEstimate stored) and its invocation has ended, the page   *)
(* can take a step without a click of the user: a timer of the page is     *)
(* pending, from which the second run starts.                              *)
C23_SecondRunStartsByItself ==
    (/\ program = "component"
     /\ firstRunComplete
     /\ initialTcEstimate # Null
     /\ sweep = Null)
    => ENABLED ResumeCalculation

(* C24: when the driver is started, the instance it steps is built over    *)
(* the graph that is loaded: its adjacency matrix, and with it its node    *)
(* count and neighbour lists, are those of the current adjacencyMatrix.    *)
C24_DriverStepsLoadedGraph ==
    [][(program = "component" /\ ~isRealTimeSimulating /\ isRealTimeSimulating')
            => /\ isingModelRef' # Null
               /\ isingModelRef'.adjacencyMatrix = adjacencyMatrix'
               /\ isingModelRef'.numNodes = Cardinality(Nodes(adjacencyMatrix'))]_vars

(* C25: the two-stage flags do not get stuck: whenever firstRunComplete is *)
(* set an initial estimate that is not null is stored with it, and a sweep *)
(* that ran as a continuation ends with firstRunComplete cleared.          *)
C25_FlagsDoNotStick ==
    [][program = "component" =>
            /\ firstRunComplete' => initialTcEstimate' # Null
            /\ (sweep # Null /\ sweep.continuation /\ sweep' = Null)
                    => ~firstRunComplete']_vars

(* C26: every temperature of the adaptive schedule lies within the         *)
(* configured range [tempMin, tempMax] (tempMin < tempMax), for every      *)
(* stored estimate, inside the range or outside it.                        *)
C26_AdaptiveScheduleInRange ==
    (/\ program = "function"
     /\ call.function = "generateTemperaturePoints"
     /\ call.done
     /\ call.args.initialEstimate # Null
     /\ call.args.settings.tempMin < call.args.settings.tempMax)
    => \A k \in 1..Len(call.returned) :
            /\ call.args.settings.tempMin <= call.returned[k]
            /\ call.returned[k] <= call.args.settings.tempMax

(* C27: at most one temperature sweep is in progress at any time.  The     *)
(* page holds a suspended invocation of startCalculation exactly while     *)
(* isCalculating, and while one is suspended every step leaves it the      *)
(* same invocation: its schedule and its kind are kept, its position and   *)
(* its results only advance, and its cancel request is not withdrawn; a    *)
(* start request during the sweep changes nothing.                         *)
C27_OneSweepAtATime ==
    [][program = "component" =>
        /\ isCalculating' = (sweep' # Null)
        /\ (sweep # Null /\ sweep' # Null) =>
                /\ sweep'.temperatures = sweep.temperatures
                /\ sweep'.continuation = sweep.continuation
                /\ sweep'.i >= sweep.i
                /\ Len(sweep'.results) >= Len(sweep.results)
                /\ abortController.aborted => abortController'.aborted]_vars

\* a sweep is suspended past its first temperature
C27_SweepUnderWay ==
    /\ program = "component"
    /\ isCalculating
    /\ sweep # Null
    /\ sweep.i > 1

(* C28: a sweep cancelled during its first stage, with temperatures of     *)
(* its schedule still to measure, never marks the first run complete and   *)
(* never stores an initial estimate, whether the cancel is observed inside *)
(* a temperature point or between two temperature points.                  *)
C28_CancelledFirstRunNotComplete ==
    [][(/\ program = "component"
        /\ sweep # Null
        /\ ~sweep.continuation
        /\ sweep.i < Len(sweep.temperatures)
        /\ abortController.aborted
        /\ sweep' = Null)
       => (~firstRunComplete' /\ initialTcEstimate' = Null)]_vars

(* C29: a cancel request does not outlive its sweep.  Calculate pressed    *)
(* while no sweep runs, whatever cancel was requested before, starts a     *)
(* sweep at its first temperature with no cancel pending; and a first-run  *)
(* sweep that ends with no cancel requested during it has recorded every   *)
(* temperature of its schedule and reports no failure.                     *)
C29_CancelDoesNotOutliveSweep ==
    [][program = "component" =>
        /\ (~isCalculating /\ fileError' = fileError) =>
                /\ isCalculating'
                /\ sweep' # Null
                /\ sweep'.i = 1
                /\ ~abortController'.aborted
        /\ (sweep # Null /\ sweep' = Null /\ ~abortController.aborted) =>
                /\ Len(magnetizationData') = Len(sweep.temperatures)
                /\ fileError' = fileError]_vars

\* a sweep has run its whole schedule after an earlier sweep was cancelled
C29_FullSweepAfterCancelled ==
    /\ program = "component"
    /\ ~isCalculating
    /\ fileError = AbortedMessage
    /\ abortController # Null
    /\ ~abortController.aborted
    /\ Len(magnetizationData) = settings.tempPoints

(* C30: a temperature sweep leaves the IsingModel of the real-time driver  *)
(* untouched: every step of a sweep (its start, each resumption up to its  *)
(* completion, its failure or its cancellation, and the cancel request)    *)
(* and every other step taken while the sweep runs leaves the spins and    *)
(* the cached energy of isingModelRef as they were, so that they are the   *)
(* same after the sweep as before it.                                      *)
C30_SweepLeavesDriverModel ==
    [][(program = "component" /\ (isCalculating \/ sweepVars' # sweepVars))
       => isingModelRef' = isingModelRef]_vars

\* a sweep has recorded its whole schedule on a page whose driver holds a
\* model
C30_SweepEndedBesideDriver ==
    /\ program = "component"
    /\ isingModelRef # Null
    /\ ~isCalculating
    /\ settings.tempPoints > 0
    /\ Len(magnetizationData) = settings.tempPoints
====
